---- MODULE Spec2Model ----
(***************************************************************************)
(* A model of the rds-data-api SQL driver (package rdsdataapi): the Conn   *)
(* type with its transaction handle, driven against the RDS Data API.      *)
(*                                                                         *)
(* Conventions.                                                            *)
(*  - A Go string holding a transaction id is a number: 0 is the empty     *)
(*    string "", h > 0 is the h-th id the engine handed out.               *)
(*  - rdsDataService[c] is TRUE while the pointer is non-nil.              *)
(*  - A driver method is one action; the remote round trip it makes is     *)
(*    part of it.  A round trip that returns an error (engine failure or   *)
(*    canceled context) is taken to have had no effect on the engine.      *)
(*  - lastOp describes the call that produced the current state: which     *)
(*    method, on which connection, the request it sent (NoCall when it     *)
(*    sent none), and what it returned.                                    *)
(*  - Spec drives the connections; SpecStmt and SpecCalls add a prepared   *)
(*    statement on one connection; SpecRows iterates a Rows over every     *)
(*    small response; SpecParams applies toParams to every small argument  *)
(*    list; SpecCancel takes a remote round trip apart into send, answer   *)
(*    and cancellation; SpecDecode applies decodeField to every            *)
(*    combination of populated slots; SpecResult applies the accessors of  *)
(*    Result and StmtResult to every small outcome; SpecOpen applies Open  *)
(*    to every small conn string.                                          *)
(***************************************************************************)
EXTENDS Integers, Sequences, FiniteSets, TLC

\* ------------------------------------------------------------ bounds
MaxTx == 2      \* transaction ids the engine hands out in one run
MaxRows == 2    \* rows inserted (committed or pending) in one run
MaxSets == 3    \* parameter sets queued on a prepared statement
MaxBatchCalls == 2  \* BatchExecuteStatement round trips made for one statement
MaxRecords == 3 \* records in the response a Rows iterates over
MaxArgs == 3    \* entries of an argument list given to toParams
MaxGenerated == 2 \* generated fields in the outcome of an execution

\* The connections the callers opened: one per logical caller.
Conns == {1, 2}
Handles == 1..MaxTx
NoTx == 0       \* the empty transactionID string

VARIABLES
    rdsDataService,   \* Conn.rdsDataService # nil, per connection
    transactionID,    \* Conn.transactionID, per connection
    txOpen,           \* engine: transactions begun and neither committed nor rolled back
    txPending,        \* engine: rows inserted inside each transaction, not yet committed
    txVia,            \* engine-side note: the connection whose call began each transaction
    txCount,          \* engine: number of transaction ids handed out
    txDiscarded,      \* engine: transactions whose rollback dropped inserted rows
    tableRows,        \* engine: committed rows of the table
    panicked,         \* a nil dereference or an index out of range took the process down
    lastOp,           \* the call that produced this state
    stmt,             \* the Stmt that PrepareContext returned (conn = 0: none yet)
    results,          \* StmtResult.i of the results Stmt.ExecContext returned, in call order
    batchLog,         \* engine: the BatchExecuteStatement calls received for stmt
    preparedTid,      \* note: the connection's transaction id when stmt was prepared
    rows,             \* the Rows a QueryContext returned: output.Records, closed, pos
    presented,        \* note: the record indexes Rows.Next has read, in call order
    dest,             \* the caller's slice that Rows.Next decodes into
    call              \* per connection: the remote round trip in flight, if any

vars == <<rdsDataService, transactionID, txOpen, txPending, txVia, txCount,
          txDiscarded, tableRows, panicked, lastOp, stmt, results, batchLog,
          preparedTid, rows, presented, dest, call>>

connVars == <<rdsDataService, transactionID>>
engineVars == <<txOpen, txPending, txVia, txCount, txDiscarded, tableRows>>
stmtVars == <<stmt, results, batchLog, preparedTid>>
rowsVars == <<rows, presented, dest>>
callVars == <<call>>

\* ------------------------------------------------------------ values
\* driver.NamedValue values, by dynamic type; "int" stands for any Go type
\* outside the type switch of toParams, "nil" for an untyped nil.
NoCall == [api |-> "none", tid |-> NoTx, sql |-> "", params |-> << >>]

Named(n, k, v) == [Name |-> n, Kind |-> k, Value |-> v]

ArgLists ==
    { << >>,
      << Named("id", "int64", 1) >>,
      << Named("", "int64", 1) >>,
      << Named("id", "int", 1) >>,
      << Named("a", "string", 1), Named("b", "nil", 0) >> }

Queries == {"INSERT", "SELECT"}

\* What the context of a remote call lets happen: the engine answers, the
\* engine (or the transport) fails, or the caller's context is canceled.
CtxOutcomes == {"ok", "error", "canceled"}
\* Commit and Rollback run under context.Background(): never canceled.
BackgroundOutcomes == {"ok", "error"}

\* ------------------------------------------------------------ toParams
SupportedKinds == {"string", "bytes", "bool", "float64", "int64"}

\* The rdsds.Field slot a supported Go type is stored in.
FieldSlot(k) ==
    CASE k = "string"  -> "StringValue"
      [] k = "bytes"   -> "BlobValue"
      [] k = "bool"    -> "BooleanValue"
      [] k = "float64" -> "DoubleValue"
      [] k = "int64"   -> "LongValue"

UnnamedNever(arg) == FALSE

\* if arg.Name == ""
Unnamed(arg) == arg.Name = ""

\* What an encoding error says about the entry it rejects: nothing, or the
\* entry's name and the kind of its value.
NoEntry == [Name |-> "", Kind |-> ""]

TypeErrorAboutKind(arg) == [Name |-> "", Kind |-> arg.Kind]

\* fmt.Errorf("... for argument '%s', got: %T, ", arg.Name, arg.Value)
TypeErrorAbout(arg) == [Name |-> arg.Name, Kind |-> arg.Kind]

RECURSIVE toParamsFrom(_, _, _)
toParamsFrom(args, i, params) ==
    IF i > Len(args) THEN [err |-> "nil", params |-> params, about |-> NoEntry]
    ELSE IF Unnamed(args[i])
        THEN [err |-> "ArgumentError", params |-> << >>, about |-> NoEntry]
    ELSE IF args[i].Kind \notin SupportedKinds
        THEN [err |-> "TypeError", params |-> << >>, about |-> TypeErrorAbout(args[i])]
    ELSE toParamsFrom(args, i + 1,
            Append(params, [Name |-> args[i].Name,
                            Slot |-> FieldSlot(args[i].Kind),
                            Value |-> args[i].Value]))

toParams(args) == toParamsFrom(args, 1, << >>)

\* The argument lists toParams is applied to: up to MaxArgs entries, each
\* unnamed or named, of a supported or an unsupported kind.
ParamEntries ==
    { Named(n, k, 1) : n \in {"", "a", "b"}, k \in {"string", "int64", "int", "nil"} }

ParamLists == UNION { [1..n -> ParamEntries] : n \in 0..MaxArgs }


\* ------------------------------------------------------------ remote engine
\* The RDS Data API as the driver sees it (its operations and what they
\* return); a transaction's inserts stay private to it until it is committed.

\* The engine runs a statement or ends a transaction only for an id it has
\* open; a request without an id is autocommit-scoped.
EngineKnows(tid) == tid = NoTx \/ tid \in txOpen

RECURSIVE SumPending(_)
SumPending(S) ==
    IF S = {} THEN 0
    ELSE LET h == CHOOSE x \in S : TRUE IN txPending[h] + SumPending(S \ {h})

\* Rows held by the engine, committed or pending.
RowsHeld == tableRows + SumPending(txOpen)

\* CommitTransaction and RollbackTransaction need the id of an open transaction.
EngineCanEnd(tid) == tid \in txOpen

\* BeginTransaction: a fresh id, an open transaction with nothing pending.
EngineCanBegin == txCount < MaxTx
EngineNewId == txCount + 1

EngineBegin(c) ==
    /\ txCount' = EngineNewId
    /\ txOpen' = txOpen \cup {EngineNewId}
    /\ txPending' = [txPending EXCEPT ![EngineNewId] = 0]
    /\ txVia' = [txVia EXCEPT ![EngineNewId] = c]
    /\ UNCHANGED <<tableRows, txDiscarded>>

\* CommitTransaction: the transaction's rows become visible to everyone.
EngineCommit(tid) ==
    /\ txOpen' = txOpen \ {tid}
    /\ tableRows' = tableRows + txPending[tid]
    /\ txPending' = [txPending EXCEPT ![tid] = 0]
    /\ UNCHANGED <<txVia, txCount, txDiscarded>>

\* RollbackTransaction: the transaction's rows are dropped.
EngineRollback(tid) ==
    /\ txOpen' = txOpen \ {tid}
    /\ txPending' = [txPending EXCEPT ![tid] = 0]
    /\ txDiscarded' = IF txPending[tid] > 0 THEN txDiscarded \cup {tid} ELSE txDiscarded
    /\ UNCHANGED <<txVia, txCount, tableRows>>

\* The rows a SELECT of the whole table returns to a request scoped by tid.
EngineVisible(tid) == tableRows + (IF tid = NoTx THEN 0 ELSE txPending[tid])

EngineCanExecute(sql, tid) ==
    /\ EngineKnows(tid)
    /\ sql = "INSERT" => RowsHeld < MaxRows

\* ExecuteStatement: an INSERT adds one row, to the transaction when the
\* request carries an id and to the table otherwise; a SELECT changes nothing.
EngineExecute(sql, tid) ==
    /\ IF sql = "INSERT" /\ tid # NoTx
         THEN txPending' = [txPending EXCEPT ![tid] = @ + 1] /\ UNCHANGED tableRows
         ELSE IF sql = "INSERT"
           THEN tableRows' = tableRows + 1 /\ UNCHANGED txPending
           ELSE UNCHANGED <<txPending, tableRows>>
    /\ UNCHANGED <<txOpen, txVia, txCount, txDiscarded>>

\* Records and NumberOfRecordsUpdated of the ExecuteStatementOutput.
EngineRecords(sql, tid) == IF sql = "SELECT" THEN EngineVisible(tid) ELSE 0
EngineUpdated(sql) == IF sql = "INSERT" THEN 1 ELSE 0

\* ------------------------------------------------------------ the call record
Returned(c, op, err, cause, req, tid, records) ==
    [conn |-> c, op |-> op, err |-> err, cause |-> cause, request |-> req,
     returned |-> tid, records |-> records]

\* A method that returns before any round trip.
Early(c, op, err) ==
    /\ lastOp' = Returned(c, op, err, "", NoCall, NoTx, 0)
    /\ UNCHANGED <<connVars, engineVars, panicked>>

\* A method whose round trip returned an error: the error is wrapped
\* ("failed to ...: %w") and returned, nothing else is touched.
Failed(c, op, cause, req) ==
    /\ lastOp' = Returned(c, op, "RemoteError", cause, req, NoTx, 0)
    /\ UNCHANGED <<connVars, engineVars, panicked>>

\* A method called through a nil *rdsds.RDSDataService.
NilDereference(c, op) ==
    /\ panicked' = TRUE
    /\ lastOp' = Returned(c, op, "panic", "", NoCall, NoTx, 0)
    /\ UNCHANGED <<connVars, engineVars>>

\* ------------------------------------------------------------ Stmt values
\* A Stmt as PrepareContext builds it: no sets, no updates, not closed.
NewStmt(c, query) ==
    [query |-> query, conn |-> c, closed |-> FALSE, sets |-> << >>, updates |-> << >>]

\* No statement prepared yet.
NoStmt == NewStmt(0, "")

\* Nothing received by the engine for the statement.
NoBatch == [issued |-> 0, served |-> 0, request |-> NoCall, reply |-> << >>]

\* The arguments the callers pass to Stmt.ExecContext.
StmtArgLists ==
    { << Named("name", "string", 1) >>,
      << Named("name", "string", 2) >>,
      << Named("", "string", 1) >>,
      << Named("name", "int", 1) >> }

\* ------------------------------------------------------------ Rows values
\* An rdsds.Field is the set of its populated (non-nil) slots with the value
\* they hold.
Field(slots, v) == [Slots |-> slots, Value |-> v]

\* &Rows{output: out}: not closed, cursor at 0.
NewRows(records) == [Records |-> records, closed |-> FALSE, pos |-> 0]
NoRows == NewRows(<< >>)

\* The columns of the responses iterated over, and the caller's slice of
\* that width before anything was decoded into it.
Columns == {1, 2}
Unset == [kind |-> "unset", value |-> 0]
EmptyDest == [i \in Columns |-> Unset]

\* The fields the responses are made of: an integer, an explicit null, and
\* a field with no populated slot.
RowFields == { Field({"LongValue"}, 7), Field({"IsNull"}, 1), Field({}, 0) }

\* The responses: up to MaxRecords records of one field per column.
Responses == UNION { [1..n -> [Columns -> RowFields]] : n \in 0..MaxRecords }

\* ------------------------------------------------------------ round trips
\* No round trip in flight on a connection: none was made yet.
NoRoundTrip ==
    [op |-> "none", ctx |-> "none", phase |-> "idle", canceled |-> FALSE, err |-> "none"]

\* ------------------------------------------------------------ Conn
\* Open: a connection with its service client and no transaction.
InitConn ==
    /\ rdsDataService = [c \in Conns |-> TRUE]
    /\ transactionID = [c \in Conns |-> NoTx]
    /\ txOpen = {}
    /\ txPending = [h \in Handles |-> 0]
    /\ txVia = [h \in Handles |-> 0]
    /\ txCount = 0
    /\ txDiscarded = {}
    /\ tableRows = 0
    /\ panicked = FALSE
    /\ lastOp = Returned(1, "Open", "nil", "", NoCall, NoTx, 0)
    /\ stmt = NoStmt
    /\ results = << >>
    /\ batchLog = NoBatch
    /\ preparedTid = NoTx
    /\ call = [c \in Conns |-> NoRoundTrip]

\* No query has returned rows yet.
Init ==
    /\ InitConn
    /\ rows = NoRows
    /\ presented = << >>
    /\ dest = EmptyDest

\* if c.rdsDataService == nil
AlreadyClosed(c) == ~rdsDataService[c]

\* Mutant: BeginTx without its guard on the transaction id.
AlreadyStartedNever(c) == FALSE

\* if c.transactionID != "" (BeginTx)
AlreadyStarted(c) == transactionID[c] # NoTx

\* Mutant: Commit without its guard on the transaction id.
NoTransactionToCommitNever(c) == FALSE

\* if c.transactionID == "" (Commit)
NoTransactionToCommit(c) == transactionID[c] = NoTx

\* if c.transactionID == "" (Rollback)
NoTransactionToRollback(c) == transactionID[c] = NoTx

\* aws.StringValue(out.TransactionId)
StringValue(tid) == tid

\* Mutant: BeginTx that drops the id the engine returned.
StoreTransactionIDDropped(c, tid) == transactionID

\* c.transactionID = aws.StringValue(out.TransactionId)
StoreTransactionID(c, tid) == [transactionID EXCEPT ![c] = StringValue(tid)]

\* Mutant: Commit that keeps the id after the engine committed.
ClearAfterCommitKept(c) == transactionID

\* c.transactionID = "" (Commit)
ClearAfterCommit(c) == [transactionID EXCEPT ![c] = NoTx]

\* Mutant: Rollback that keeps the id after the engine rolled back.
ClearAfterRollbackKept(c) == transactionID

\* c.transactionID = "" (Rollback)
ClearAfterRollback(c) == [transactionID EXCEPT ![c] = NoTx]

BeginTransactionInput(c) ==
    [api |-> "BeginTransaction", tid |-> NoTx, sql |-> "", params |-> << >>]

CommitTransactionInput(c) ==
    [api |-> "CommitTransaction", tid |-> transactionID[c], sql |-> "", params |-> << >>]

RollbackTransactionInput(c) ==
    [api |-> "RollbackTransaction", tid |-> transactionID[c], sql |-> "", params |-> << >>]

\* Mutant: execute that never attaches the transaction id.
ExecuteTransactionIdUnset(c) == NoTx

\* if c.transactionID != "" { in.SetTransactionId(c.transactionID) }
ExecuteTransactionId(c) == IF transactionID[c] # NoTx THEN transactionID[c] ELSE NoTx

ExecuteStatementInput(c, query, params) ==
    [api |-> "ExecuteStatement", tid |-> ExecuteTransactionId(c), sql |-> query,
     params |-> params]

\* Mutant: BeginTx that marks the connection as in a transaction before the
\* round trip and does not undo it when the round trip fails.
BeginFailedHandleSet(c, cause) ==
    /\ lastOp' = Returned(c, "BeginTx", "RemoteError", cause, BeginTransactionInput(c), NoTx, 0)
    /\ transactionID' = [transactionID EXCEPT ![c] = EngineNewId]
    /\ UNCHANGED <<rdsDataService, engineVars, panicked>>

\* BeginTransactionWithContext returned err != nil
BeginFailed(c, cause) == Failed(c, "BeginTx", cause, BeginTransactionInput(c))

\* CommitTransactionWithContext returned err != nil
CommitFailed(c, cause) == Failed(c, "Commit", cause, CommitTransactionInput(c))

\* Mutant: Rollback that clears the id although the round trip failed.
RollbackFailedCleared(c, cause) ==
    /\ lastOp' = Returned(c, "Rollback", "RemoteError", cause, RollbackTransactionInput(c),
                          NoTx, 0)
    /\ transactionID' = [transactionID EXCEPT ![c] = NoTx]
    /\ UNCHANGED <<rdsDataService, engineVars, panicked>>

\* RollbackTransactionWithContext returned err != nil
RollbackFailed(c, cause) == Failed(c, "Rollback", cause, RollbackTransactionInput(c))

\* Mutant: execute that gives up the transaction when a statement fails.
ExecuteFailedCleared(c, op, cause, in) ==
    /\ lastOp' = Returned(c, op, "RemoteError", cause, in, NoTx, 0)
    /\ transactionID' = [transactionID EXCEPT ![c] = NoTx]
    /\ UNCHANGED <<rdsDataService, engineVars, panicked>>

ExecuteFailedRetried(c, op, cause, in) ==
    /\ EngineCanExecute(in.sql, in.tid)
    /\ EngineExecute(in.sql, in.tid)
    /\ lastOp' = Returned(c, op, "nil", cause, in, NoTx, EngineRecords(in.sql, in.tid))
    /\ UNCHANGED <<connVars, panicked>>

\* ExecuteStatementWithContext returned err != nil
ExecuteFailed(c, op, cause, in) == Failed(c, op, cause, in)

BeginTx(c) ==
    /\ ~panicked
    /\ UNCHANGED <<stmtVars, rowsVars, callVars>>
    /\ IF AlreadyClosed(c) THEN Early(c, "BeginTx", "ClosedError")
       ELSE IF AlreadyStarted(c) THEN Early(c, "BeginTx", "StateError")
       ELSE \E outcome \in CtxOutcomes :
            IF outcome # "ok" THEN BeginFailed(c, outcome)
            ELSE /\ EngineCanBegin
                 /\ EngineBegin(c)
                 /\ transactionID' = StoreTransactionID(c, EngineNewId)
                 /\ lastOp' = Returned(c, "BeginTx", "nil", "", BeginTransactionInput(c),
                                       EngineNewId, 0)
                 /\ UNCHANGED <<rdsDataService, panicked>>

Commit(c) ==
    /\ ~panicked
    /\ UNCHANGED <<stmtVars, rowsVars, callVars>>
    /\ IF NoTransactionToCommit(c) THEN Early(c, "Commit", "StateError")
       ELSE IF ~rdsDataService[c] THEN NilDereference(c, "Commit")
       ELSE \E outcome \in BackgroundOutcomes :
            IF outcome # "ok" THEN CommitFailed(c, outcome)
            ELSE /\ EngineCanEnd(CommitTransactionInput(c).tid)
                 /\ EngineCommit(CommitTransactionInput(c).tid)
                 /\ transactionID' = ClearAfterCommit(c)
                 /\ lastOp' = Returned(c, "Commit", "nil", "", CommitTransactionInput(c),
                                       NoTx, 0)
                 /\ UNCHANGED <<rdsDataService, panicked>>

\* Mutant: Rollback that sends the transaction to CommitTransaction.
RollbackCommits(c) ==
    /\ ~panicked
    /\ UNCHANGED <<stmtVars, rowsVars, callVars>>
    /\ IF NoTransactionToRollback(c) THEN Early(c, "Rollback", "StateError")
       ELSE IF ~rdsDataService[c] THEN NilDereference(c, "Rollback")
       ELSE \E outcome \in BackgroundOutcomes :
            IF outcome # "ok" THEN RollbackFailed(c, outcome)
            ELSE /\ EngineCanEnd(CommitTransactionInput(c).tid)
                 /\ EngineCommit(CommitTransactionInput(c).tid)
                 /\ transactionID' = ClearAfterRollback(c)
                 /\ lastOp' = Returned(c, "Rollback", "nil", "", CommitTransactionInput(c),
                                       NoTx, 0)
                 /\ UNCHANGED <<rdsDataService, panicked>>

Rollback(c) ==
    /\ ~panicked
    /\ UNCHANGED <<stmtVars, rowsVars, callVars>>
    /\ IF NoTransactionToRollback(c) THEN Early(c, "Rollback", "StateError")
       ELSE IF ~rdsDataService[c] THEN NilDereference(c, "Rollback")
       ELSE \E outcome \in BackgroundOutcomes :
            IF outcome # "ok" THEN RollbackFailed(c, outcome)
            ELSE /\ EngineCanEnd(RollbackTransactionInput(c).tid)
                 /\ EngineRollback(RollbackTransactionInput(c).tid)
                 /\ transactionID' = ClearAfterRollback(c)
                 /\ lastOp' = Returned(c, "Rollback", "nil", "", RollbackTransactionInput(c),
                                       NoTx, 0)
                 /\ UNCHANGED <<rdsDataService, panicked>>

CloseRollsBack(c) ==
    /\ ~panicked
    /\ UNCHANGED <<stmtVars, rowsVars, callVars>>
    /\ rdsDataService' = [rdsDataService EXCEPT ![c] = FALSE]
    /\ IF transactionID[c] # NoTx /\ EngineCanEnd(transactionID[c])
         THEN /\ EngineRollback(transactionID[c])
              /\ transactionID' = ClearAfterRollback(c)
              /\ lastOp' = Returned(c, "Close", "nil", "", RollbackTransactionInput(c), NoTx, 0)
         ELSE /\ lastOp' = Returned(c, "Close", "nil", "", NoCall, NoTx, 0)
              /\ UNCHANGED <<transactionID, engineVars>>
    /\ UNCHANGED panicked

\* func (c *Conn) Close() (err error) { c.rdsDataService = nil; return }
Close(c) ==
    /\ ~panicked
    /\ UNCHANGED <<stmtVars, rowsVars, callVars>>
    /\ rdsDataService' = [rdsDataService EXCEPT ![c] = FALSE]
    /\ lastOp' = Returned(c, "Close", "nil", "", NoCall, NoTx, 0)
    /\ UNCHANGED <<transactionID, engineVars, panicked>>

\* Conn.execute, on behalf of op (ExecContext or QueryContext).
execute(c, op, query, args) ==
    /\ ~panicked
    /\ UNCHANGED <<stmtVars, rowsVars, callVars>>
    /\ LET enc == toParams(args)
           in == ExecuteStatementInput(c, query, enc.params)
       IN  IF enc.err # "nil" THEN Early(c, op, enc.err)
           ELSE IF ~rdsDataService[c] THEN NilDereference(c, op)
           ELSE \E outcome \in CtxOutcomes :
                IF outcome # "ok" THEN ExecuteFailed(c, op, outcome, in)
                ELSE /\ EngineCanExecute(query, in.tid)
                     /\ EngineExecute(query, in.tid)
                     /\ lastOp' = Returned(c, op, "nil", "", in, NoTx,
                                           EngineRecords(query, in.tid))
                     /\ UNCHANGED <<connVars, panicked>>

ExecContext(c, query, args) == execute(c, "ExecContext", query, args)

QueryContext(c, query, args) == execute(c, "QueryContext", query, args)

\* ------------------------------------------------------------ Stmt
\* BatchExecuteStatement (engine): one UpdateResult per parameter set, in the
\* order of the sets; an INSERT adds one row per set and generates its key.
EngineCanBatch(tid) == EngineKnows(tid)

EngineBatchReply(sql, sets) ==
    [k \in 1..Len(sets) |->
        [GeneratedFields |->
            IF sql = "INSERT" THEN << [Slot |-> "LongValue", Value |-> RowsHeld + k] >>
            ELSE << >>]]

EngineBatch(sql, sets, tid) ==
    /\ IF sql = "INSERT" /\ tid # NoTx
         THEN txPending' = [txPending EXCEPT ![tid] = @ + Len(sets)] /\ UNCHANGED tableRows
         ELSE IF sql = "INSERT"
           THEN tableRows' = tableRows + Len(sets) /\ UNCHANGED txPending
           ELSE UNCHANGED <<txPending, tableRows>>
    /\ UNCHANGED <<txOpen, txVia, txCount, txDiscarded>>

\* What a Stmt or StmtResult method returned: index and id are the queue
\* position of the StmtResult involved and the key LastInsertId returned.
StmtReturned(op, err, cause, req, index, id) ==
    [conn |-> stmt.conn, op |-> op, err |-> err, cause |-> cause, request |-> req,
     returned |-> NoTx, records |-> 0, index |-> index, id |-> id]

\* A Stmt method that returns an error before doing anything.
StmtEarly(op, err) ==
    /\ lastOp' = StmtReturned(op, err, "", NoCall, -1, -1)
    /\ UNCHANGED <<connVars, engineVars, panicked, stmtVars>>

\* return &Stmt{query: query, conn: c}, nil
PrepareContext(c, query) ==
    /\ ~panicked
    /\ UNCHANGED <<rowsVars, callVars>>
    /\ stmt = NoStmt
    /\ IF AlreadyClosed(c)
         THEN /\ lastOp' = Returned(c, "PrepareContext", "ClosedError", "", NoCall, NoTx, 0)
              /\ UNCHANGED <<connVars, engineVars, panicked, stmtVars>>
         ELSE /\ stmt' = NewStmt(c, query)
              /\ preparedTid' = transactionID[c]
              /\ lastOp' = Returned(c, "PrepareContext", "nil", "", NoCall, NoTx, 0)
              /\ UNCHANGED <<connVars, engineVars, panicked, results, batchLog>>

ExecAlreadyClosedNever == FALSE

\* if s.closed (Stmt.ExecContext)
ExecAlreadyClosed == stmt.closed

CloseAlreadyClosedNever == FALSE

\* if s.closed (Stmt.Close)
CloseAlreadyClosed == stmt.closed

\* if s.closed (Stmt.QueryContext)
QueryAlreadyClosed == stmt.closed

\* s.sets = append(s.sets, params)
AppendSet(sets, params) == Append(sets, params)

StmtResultIndexAfterLast(sets) == Len(sets)

\* &StmtResult{stmt: s, i: len(s.sets) - 1}, after the append
StmtResultIndex(sets) == Len(sets) - 1

\* Mutant: ExecContext that queues what toParams returned before looking at
\* its error.
StmtExecContextQueuesFirst(args) ==
    /\ ~panicked
    /\ UNCHANGED <<rowsVars, callVars>>
    /\ stmt # NoStmt
    /\ LET enc == toParams(args)
           sets == AppendSet(stmt.sets, enc.params)
       IN  IF ExecAlreadyClosed THEN StmtEarly("Stmt.ExecContext", "ClosedError")
           ELSE /\ Len(stmt.sets) < MaxSets
                /\ stmt' = [stmt EXCEPT !.sets = sets]
                /\ IF enc.err # "nil"
                     THEN /\ results' = results
                          /\ lastOp' = StmtReturned("Stmt.ExecContext", enc.err, "", NoCall,
                                                    -1, -1)
                     ELSE /\ results' = Append(results, StmtResultIndex(sets))
                          /\ lastOp' = StmtReturned("Stmt.ExecContext", "nil", "", NoCall,
                                                    StmtResultIndex(sets), -1)
                /\ UNCHANGED <<connVars, engineVars, panicked, batchLog, preparedTid>>

StmtExecContext(args) ==
    /\ ~panicked
    /\ UNCHANGED <<rowsVars, callVars>>
    /\ stmt # NoStmt
    /\ LET enc == toParams(args)
           sets == AppendSet(stmt.sets, enc.params)
       IN  IF ExecAlreadyClosed THEN StmtEarly("Stmt.ExecContext", "ClosedError")
           ELSE IF enc.err # "nil" THEN StmtEarly("Stmt.ExecContext", enc.err)
           ELSE /\ Len(stmt.sets) < MaxSets
                /\ stmt' = [stmt EXCEPT !.sets = sets]
                /\ results' = Append(results, StmtResultIndex(sets))
                /\ lastOp' = StmtReturned("Stmt.ExecContext", "nil", "", NoCall,
                                          StmtResultIndex(sets), -1)
                /\ UNCHANGED <<connVars, engineVars, panicked, batchLog, preparedTid>>

StmtQueryContextQueues(args) ==
    /\ ~panicked
    /\ UNCHANGED <<rowsVars, callVars>>
    /\ stmt # NoStmt
    /\ IF QueryAlreadyClosed \/ toParams(args).err # "nil" \/ Len(stmt.sets) >= MaxSets
         THEN StmtEarly("Stmt.QueryContext", "ClosedError")
         ELSE /\ stmt' = [stmt EXCEPT !.sets = AppendSet(stmt.sets, toParams(args).params)]
              /\ lastOp' = StmtReturned("Stmt.QueryContext", "nil", "", NoCall, -1, -1)
              /\ UNCHANGED <<connVars, engineVars, panicked, results, batchLog, preparedTid>>

StmtQueryContext(args) ==
    /\ ~panicked
    /\ UNCHANGED <<rowsVars, callVars>>
    /\ stmt # NoStmt
    /\ IF QueryAlreadyClosed THEN StmtEarly("Stmt.QueryContext", "ClosedError")
       ELSE StmtEarly("Stmt.QueryContext", "UnsupportedError")

BatchTransactionIdAtPrepare == preparedTid

\* if s.conn.transactionID != "" { in.SetTransactionId(s.conn.transactionID) }
BatchTransactionId ==
    IF transactionID[stmt.conn] # NoTx THEN transactionID[stmt.conn] ELSE NoTx

BatchExecuteStatementInputReversed ==
    [api |-> "BatchExecuteStatement", tid |-> BatchTransactionId, sql |-> stmt.query,
     params |-> [k \in 1..Len(stmt.sets) |-> stmt.sets[Len(stmt.sets) + 1 - k]]]

BatchExecuteStatementInput ==
    [api |-> "BatchExecuteStatement", tid |-> BatchTransactionId, sql |-> stmt.query,
     params |-> stmt.sets]

StmtCloseFailedMarksClosed(cause) ==
    /\ lastOp' = StmtReturned("Stmt.Close", "RemoteError", cause,
                              BatchExecuteStatementInput, -1, -1)
    /\ batchLog' = [batchLog EXCEPT !.issued = @ + 1]
    /\ stmt' = [stmt EXCEPT !.closed = TRUE]
    /\ UNCHANGED <<connVars, engineVars, panicked, results, preparedTid>>

\* BatchExecuteStatementWithContext returned err != nil
StmtCloseFailed(cause) ==
    /\ lastOp' = StmtReturned("Stmt.Close", "RemoteError", cause,
                              BatchExecuteStatementInput, -1, -1)
    /\ batchLog' = [batchLog EXCEPT !.issued = @ + 1]
    /\ UNCHANGED <<connVars, engineVars, panicked, stmt, results, preparedTid>>

StoreUpdatesReversed(out) ==
    [stmt EXCEPT !.updates = [k \in 1..Len(out) |-> out[Len(out) + 1 - k]], !.closed = TRUE]

\* s.updates = out.UpdateResults; s.closed = true
StoreUpdates(out) == [stmt EXCEPT !.updates = out, !.closed = TRUE]

StmtClose ==
    /\ ~panicked
    /\ UNCHANGED <<rowsVars, callVars>>
    /\ stmt # NoStmt
    /\ LET in == BatchExecuteStatementInput
           out == EngineBatchReply(in.sql, in.params)
       IN  IF CloseAlreadyClosed THEN StmtEarly("Stmt.Close", "ClosedError")
           ELSE IF ~rdsDataService[stmt.conn]
             THEN /\ panicked' = TRUE
                  /\ lastOp' = StmtReturned("Stmt.Close", "panic", "", NoCall, -1, -1)
                  /\ UNCHANGED <<connVars, engineVars, stmtVars>>
           ELSE /\ batchLog.issued < MaxBatchCalls
                /\ \E outcome \in BackgroundOutcomes :
                     IF outcome # "ok" THEN StmtCloseFailed(outcome)
                     ELSE /\ EngineCanBatch(in.tid)
                          /\ EngineBatch(in.sql, in.params, in.tid)
                          /\ batchLog' = [issued |-> batchLog.issued + 1,
                                          served |-> batchLog.served + 1,
                                          request |-> in, reply |-> out]
                          /\ stmt' = StoreUpdates(out)
                          /\ lastOp' = StmtReturned("Stmt.Close", "nil", "", in, -1, -1)
                          /\ UNCHANGED <<connVars, panicked, results, preparedTid>>

\* StmtResult.LastInsertId for the result bound to queue position i (from 0):
\* what it returns, or that indexing s.updates panics.
LastInsertId(i) ==
    IF i + 1 > Len(stmt.updates) THEN [err |-> "panic", id |-> -1]
    ELSE LET gfields == stmt.updates[i + 1].GeneratedFields
         IN  IF Len(gfields) # 1 THEN [err |-> "UnsupportedError", id |-> -1]
             ELSE IF gfields[1].Slot # "LongValue" THEN [err |-> "UnsupportedError", id |-> -1]
             ELSE [err |-> "nil", id |-> gfields[1].Value]

StmtResultLastInsertId(k) ==
    /\ ~panicked
    /\ UNCHANGED <<rowsVars, callVars>>
    /\ LET r == LastInsertId(results[k])
       IN  /\ lastOp' = StmtReturned("StmtResult.LastInsertId", r.err, "", NoCall,
                                     results[k], r.id)
           /\ panicked' = (r.err = "panic")
    /\ UNCHANGED <<connVars, engineVars, stmtVars>>

\* panic("not yet implemented")
StmtResultRowsAffected(k) ==
    /\ ~panicked
    /\ UNCHANGED <<rowsVars, callVars>>
    /\ lastOp' = StmtReturned("StmtResult.RowsAffected", "panic", "", NoCall, results[k], -1)
    /\ panicked' = TRUE
    /\ UNCHANGED <<connVars, engineVars, stmtVars>>

Next ==
    \/ \E c \in Conns : BeginTx(c)
    \/ \E c \in Conns : Commit(c)
    \/ \E c \in Conns : Rollback(c)
    \/ \E c \in Conns : Close(c)
    \/ \E c \in Conns, q \in Queries, a \in ArgLists : ExecContext(c, q, a)
    \/ \E c \in Conns, q \in Queries, a \in ArgLists : QueryContext(c, q, a)

Spec == Init /\ [][Next]_vars

\* decodeField with the integer slot tested before the explicit null.
decodeFieldIntegerBeforeNull(f) ==
    IF "BlobValue" \in f.Slots THEN [err |-> "nil", v |-> [kind |-> "bytes", value |-> f.Value]]
    ELSE IF "BooleanValue" \in f.Slots THEN [err |-> "nil", v |-> [kind |-> "bool", value |-> f.Value]]
    ELSE IF "DoubleValue" \in f.Slots THEN [err |-> "nil", v |-> [kind |-> "float64", value |-> f.Value]]
    ELSE IF "LongValue" \in f.Slots THEN [err |-> "nil", v |-> [kind |-> "int64", value |-> f.Value]]
    ELSE IF "IsNull" \in f.Slots THEN [err |-> "nil", v |-> [kind |-> "nil", value |-> 0]]
    ELSE IF "StringValue" \in f.Slots THEN [err |-> "nil", v |-> [kind |-> "string", value |-> f.Value]]
    ELSE [err |-> "DecodeError", v |-> [kind |-> "nil", value |-> 0]]

\* ------------------------------------------------------------ Rows
\* decodeField: the value of the first populated slot, in the order of the
\* switch; an explicit null decodes to nil.
decodeField(f) ==
    IF "BlobValue" \in f.Slots THEN [err |-> "nil", v |-> [kind |-> "bytes", value |-> f.Value]]
    ELSE IF "BooleanValue" \in f.Slots THEN [err |-> "nil", v |-> [kind |-> "bool", value |-> f.Value]]
    ELSE IF "DoubleValue" \in f.Slots THEN [err |-> "nil", v |-> [kind |-> "float64", value |-> f.Value]]
    ELSE IF "IsNull" \in f.Slots THEN [err |-> "nil", v |-> [kind |-> "nil", value |-> 0]]
    ELSE IF "LongValue" \in f.Slots THEN [err |-> "nil", v |-> [kind |-> "int64", value |-> f.Value]]
    ELSE IF "StringValue" \in f.Slots THEN [err |-> "nil", v |-> [kind |-> "string", value |-> f.Value]]
    ELSE [err |-> "DecodeError", v |-> [kind |-> "nil", value |-> 0]]

\* for i, field := range row { dest[i], err = decodeField(field); if err != nil { return } }
RECURSIVE decodeRow(_, _, _)
decodeRow(row, i, d) ==
    IF i > Len(row) THEN [err |-> "nil", dest |-> d]
    ELSE LET r == decodeField(row[i])
             d1 == [d EXCEPT ![i] = r.v]
         IN  IF r.err # "nil" THEN [err |-> r.err, dest |-> d1]
             ELSE decodeRow(row, i + 1, d1)

\* What a Rows method returned: row is the index (from 1) of the record it
\* read, 0 when it read none; wasClosed is r.closed when it was called.
RowsReturned(op, err, row) ==
    [conn |-> 0, op |-> op, err |-> err, cause |-> "", request |-> NoCall,
     returned |-> NoTx, records |-> 0, row |-> row, wasClosed |-> rows.closed]

RowsAlreadyClosedNever == FALSE

\* if r.closed (Rows.Next)
RowsAlreadyClosed == rows.closed

\* if r.pos == len(r.output.Records)
AtEndOfData == rows.pos = Len(rows.Records)

RowsAtEndRewinds ==
    /\ lastOp' = RowsReturned("Rows.Next", "EOF", 0)
    /\ rows' = [rows EXCEPT !.pos = 0]
    /\ presented' = << >>
    /\ UNCHANGED dest

\* return io.EOF
RowsAtEnd ==
    /\ lastOp' = RowsReturned("Rows.Next", "EOF", 0)
    /\ UNCHANGED <<rows, presented, dest>>

ReadRowFirst == rows.Records[1]

\* row := r.output.Records[r.pos]
ReadRow == rows.Records[rows.pos + 1]

NextPosAfterDecode(pos, err) == IF err = "nil" THEN pos + 1 ELSE pos

\* r.pos++, before the row is decoded: whatever decoding returns
NextPos(pos, err) == pos + 1

RowsNext ==
    /\ ~panicked
    /\ UNCHANGED <<connVars, engineVars, panicked, stmtVars, callVars>>
    /\ IF RowsAlreadyClosed
         THEN /\ lastOp' = RowsReturned("Rows.Next", "ClosedError", 0)
              /\ UNCHANGED <<rows, presented, dest>>
         ELSE IF AtEndOfData THEN RowsAtEnd
         ELSE LET r == decodeRow(ReadRow, 1, dest)
              IN  /\ rows' = [rows EXCEPT !.pos = NextPos(rows.pos, r.err)]
                  /\ presented' = Append(presented, rows.pos + 1)
                  /\ dest' = r.dest
                  /\ lastOp' = RowsReturned("Rows.Next", r.err, rows.pos + 1)

CloseRowsToggle(r) == [r EXCEPT !.closed = ~r.closed]

\* r.closed = true
CloseRows(r) == [r EXCEPT !.closed = TRUE]

\* func (r *Rows) Close() error { r.closed = true; return nil }
RowsClose ==
    /\ ~panicked
    /\ UNCHANGED <<connVars, engineVars, panicked, stmtVars, callVars>>
    /\ rows' = CloseRows(rows)
    /\ lastOp' = RowsReturned("Rows.Close", "nil", 0)
    /\ UNCHANGED <<presented, dest>>

\* A query returned &Rows{output: out} for some response of the engine.
InitRows ==
    /\ InitConn
    /\ rows \in { NewRows(out) : out \in Responses }
    /\ presented = << >>
    /\ dest = EmptyDest

NextRows ==
    \/ RowsNext
    \/ RowsClose

SpecRows == InitRows /\ [][NextRows]_vars

\* ------------------------------------------------------------ toParams applied
\* toParams called with args (op "toParams.call") and what it returned
\* (op "toParams").
Encoding(op, args, err, params, about) ==
    [conn |-> 0, op |-> op, err |-> err, cause |-> "", request |-> NoCall,
     returned |-> NoTx, records |-> 0, args |-> args, params |-> params,
     about |-> about]

\* A caller is about to encode some argument list.
InitParams ==
    /\ rdsDataService = [c \in Conns |-> TRUE]
    /\ transactionID = [c \in Conns |-> NoTx]
    /\ txOpen = {} /\ txPending = [h \in Handles |-> 0] /\ txVia = [h \in Handles |-> 0]
    /\ txCount = 0 /\ txDiscarded = {} /\ tableRows = 0
    /\ panicked = FALSE
    /\ stmt = NoStmt /\ results = << >> /\ batchLog = NoBatch /\ preparedTid = NoTx
    /\ call = [c \in Conns |-> NoRoundTrip]
    /\ rows = NoRows /\ presented = << >> /\ dest = EmptyDest
    /\ lastOp \in { Encoding("toParams.call", a, "nil", << >>, NoEntry) : a \in ParamLists }

Encode ==
    /\ ~panicked
    /\ lastOp.op = "toParams.call"
    /\ lastOp' = Encoding("toParams", lastOp.args, toParams(lastOp.args).err,
                          toParams(lastOp.args).params, toParams(lastOp.args).about)
    /\ UNCHANGED <<connVars, engineVars, panicked, stmtVars, rowsVars, callVars>>

NextParams == Encode

SpecParams == InitParams /\ [][NextParams]_vars

\* ------------------------------------------------------------ decodeField applied
\* Nothing has been called yet on any connection, statement or Rows.
Quiescent ==
    /\ rdsDataService = [c \in Conns |-> TRUE]
    /\ transactionID = [c \in Conns |-> NoTx]
    /\ txOpen = {} /\ txPending = [h \in Handles |-> 0] /\ txVia = [h \in Handles |-> 0]
    /\ txCount = 0 /\ txDiscarded = {} /\ tableRows = 0
    /\ panicked = FALSE
    /\ stmt = NoStmt /\ results = << >> /\ batchLog = NoBatch /\ preparedTid = NoTx
    /\ call = [c \in Conns |-> NoRoundTrip]
    /\ rows = NoRows /\ presented = << >> /\ dest = EmptyDest

\* The slots of rdsds.Field that decodeField looks at, and the fields it is
\* applied to: every combination of populated slots.
FieldSlots ==
    {"BlobValue", "BooleanValue", "DoubleValue", "IsNull", "LongValue", "StringValue"}

DecodeFields == { Field(S, v) : S \in SUBSET FieldSlots, v \in {1, 2} }

\* decodeField called with f (op "decodeField.call") and what it returned
\* (op "decodeField").
Decoding(op, f, err, v) ==
    [conn |-> 0, op |-> op, err |-> err, cause |-> "", request |-> NoCall,
     returned |-> NoTx, records |-> 0, field |-> f, v |-> v]

InitDecode ==
    /\ Quiescent
    /\ lastOp \in { Decoding("decodeField.call", f, "nil", Unset) : f \in DecodeFields }

Decode ==
    /\ ~panicked
    /\ lastOp.op = "decodeField.call"
    /\ lastOp' = Decoding("decodeField", lastOp.field, decodeField(lastOp.field).err,
                          decodeField(lastOp.field).v)
    /\ UNCHANGED <<connVars, engineVars, panicked, stmtVars, rowsVars, callVars>>

NextDecode == Decode

SpecDecode == InitDecode /\ [][NextDecode]_vars

\* ------------------------------------------------------------ Result
\* The outcomes of an execution the accessors are applied to: up to
\* MaxGenerated generated fields, each with its integer or its text slot
\* populated, and an update count that the engine reports or leaves out.
GeneratedEntries == { [Slot |-> s, Value |-> v] : s \in {"LongValue", "StringValue"}, v \in {1, 2} }

GeneratedLists == UNION { [1..n -> GeneratedEntries] : n \in 0..MaxGenerated }

NoCount == [Present |-> FALSE, Value |-> 0]

UpdateCounts == {NoCount} \cup { [Present |-> TRUE, Value |-> n] : n \in {0, 1, 2} }

Outputs ==
    { [GeneratedFields |-> g, NumberOfRecordsUpdated |-> n] :
        g \in GeneratedLists, n \in UpdateCounts }

\* aws.Int64Value: the value pointed to, 0 for a nil pointer.
Int64Value(p) == IF p.Present THEN p.Value ELSE 0

\* Result.LastInsertId taking the first generated field whenever there is one.
ResultKeyOfFirstField(out) ==
    IF Len(out.GeneratedFields) = 0 THEN [err |-> "UnsupportedError", id |-> -1]
    ELSE IF out.GeneratedFields[1].Slot # "LongValue"
        THEN [err |-> "UnsupportedError", id |-> -1]
    ELSE [err |-> "nil", id |-> out.GeneratedFields[1].Value]

\* Result.LastInsertId: what it returns for the output the Result holds.
ResultKey(out) ==
    IF Len(out.GeneratedFields) # 1 THEN [err |-> "UnsupportedError", id |-> -1]
    ELSE IF out.GeneratedFields[1].Slot # "LongValue"
        THEN [err |-> "UnsupportedError", id |-> -1]
    ELSE [err |-> "nil", id |-> out.GeneratedFields[1].Value]

\* Result.RowsAffected failing when the engine reports no count.
ResultCountIfReported(out) ==
    IF out.NumberOfRecordsUpdated.Present
        THEN [err |-> "nil", n |-> out.NumberOfRecordsUpdated.Value]
        ELSE [err |-> "UnsupportedError", n |-> -1]

\* return aws.Int64Value(r.output.NumberOfRecordsUpdated), nil
ResultCount(out) == [err |-> "nil", n |-> Int64Value(out.NumberOfRecordsUpdated)]

\* ExecContext returned &Result{output: out} (op "Result"), and what an
\* accessor of that Result returned.
ResultReturned(op, err, out, id, n) ==
    [conn |-> 1, op |-> op, err |-> err, cause |-> "", request |-> NoCall,
     returned |-> NoTx, records |-> 0, output |-> out, id |-> id, n |-> n]

\* An execute returned a Result for some output of the engine, and a
\* prepared INSERT with one queued set was closed with the same generated
\* fields in its UpdateResult.
InitResult ==
    /\ rdsDataService = [c \in Conns |-> TRUE]
    /\ transactionID = [c \in Conns |-> NoTx]
    /\ txOpen = {} /\ txPending = [h \in Handles |-> 0] /\ txVia = [h \in Handles |-> 0]
    /\ txCount = 0 /\ txDiscarded = {} /\ tableRows = 0
    /\ panicked = FALSE
    /\ preparedTid = NoTx
    /\ call = [c \in Conns |-> NoRoundTrip]
    /\ rows = NoRows /\ presented = << >> /\ dest = EmptyDest
    /\ results = << 0 >>
    /\ \E out \in Outputs :
        LET sets == << toParams(<< Named("name", "string", 1) >>).params >>
            in == [api |-> "BatchExecuteStatement", tid |-> NoTx, sql |-> "INSERT",
                   params |-> sets]
            reply == << [GeneratedFields |-> out.GeneratedFields] >>
        IN  /\ stmt = [query |-> "INSERT", conn |-> 1, closed |-> TRUE, sets |-> sets,
                       updates |-> reply]
            /\ batchLog = [issued |-> 1, served |-> 1, request |-> in, reply |-> reply]
            /\ lastOp = ResultReturned("Result", "nil", out, -1, -1)

ResultLastInsertId ==
    /\ ~panicked
    /\ lastOp.op = "Result"
    /\ lastOp' = ResultReturned("Result.LastInsertId", ResultKey(lastOp.output).err,
                                lastOp.output, ResultKey(lastOp.output).id, -1)
    /\ UNCHANGED <<connVars, engineVars, panicked, stmtVars, rowsVars, callVars>>

ResultRowsAffected ==
    /\ ~panicked
    /\ lastOp.op = "Result"
    /\ lastOp' = ResultReturned("Result.RowsAffected", ResultCount(lastOp.output).err,
                                lastOp.output, -1, ResultCount(lastOp.output).n)
    /\ UNCHANGED <<connVars, engineVars, panicked, stmtVars, rowsVars, callVars>>

NextResult ==
    \/ ResultLastInsertId
    \/ ResultRowsAffected
    \/ \E k \in DOMAIN results : StmtResultLastInsertId(k)

SpecResult == InitResult /\ [][NextResult]_vars

\* ------------------------------------------------------------ Open
\* The conn strings Open is given: whether url.ParseQuery accepts the string
\* and, per key, the values the query holds for it (url.Values).
ConfigKeys == {"Database", "ResourceARN", "SecretARN"}

ConnStrings ==
    { [parses |-> p, values |-> v] :
        p \in BOOLEAN, v \in [ConfigKeys -> {<< >>, <<"">>, <<"x">>, <<"", "x">>}] }

\* url.Values.Get: the first value of the key, "" when it has none.
Get(cfg, key) == IF cfg[key] = << >> THEN "" ELSE cfg[key][1]

MissingAll(d, r, s) == r = "" /\ s = "" /\ d = ""

\* if c.resourceARN == "" || c.secretARN == "" || c.databaseName == ""
Missing(d, r, s) == r = "" \/ s = "" \/ d = ""

\* Open called with q (op "Open.call") and what it returned (op "Open"):
\* conn is the connection returned, 0 when it returned none.
Opening(op, q, err, c) ==
    [conn |-> c, op |-> op, err |-> err, cause |-> "", request |-> NoCall,
     returned |-> NoTx, records |-> 0, q |-> q]

\* No connection has been opened; a caller is about to open one.
InitOpen ==
    /\ rdsDataService = [c \in Conns |-> FALSE]
    /\ transactionID = [c \in Conns |-> NoTx]
    /\ txOpen = {} /\ txPending = [h \in Handles |-> 0] /\ txVia = [h \in Handles |-> 0]
    /\ txCount = 0 /\ txDiscarded = {} /\ tableRows = 0
    /\ panicked = FALSE
    /\ stmt = NoStmt /\ results = << >> /\ batchLog = NoBatch /\ preparedTid = NoTx
    /\ call = [c \in Conns |-> NoRoundTrip]
    /\ rows = NoRows /\ presented = << >> /\ dest = EmptyDest
    /\ lastOp \in { Opening("Open.call", q, "nil", 0) : q \in ConnStrings }

Open(c) ==
    /\ ~panicked
    /\ lastOp.op = "Open.call"
    /\ LET q == lastOp.q
           databaseName == Get(q.values, "Database")
           resourceARN == Get(q.values, "ResourceARN")
           secretARN == Get(q.values, "SecretARN")
       IN  IF ~q.parses \/ Missing(databaseName, resourceARN, secretARN)
           THEN /\ lastOp' = Opening("Open", q, "ConfigError", 0)
                /\ UNCHANGED connVars
           ELSE /\ lastOp' = Opening("Open", q, "nil", c)
                /\ rdsDataService' = [rdsDataService EXCEPT ![c] = TRUE]
                /\ transactionID' = [transactionID EXCEPT ![c] = NoTx]
    /\ UNCHANGED <<engineVars, panicked, stmtVars, rowsVars, callVars>>

NextOpen == Open(1)

SpecOpen == InitOpen /\ [][NextOpen]_vars

\* ------------------------------------------------------------ round trips in flight
\* The remote round trip of a method taken apart: the request is sent, then
\* the engine answers (or never does), the caller cancels its context or its
\* timeout fires, and the call made WithContext(ctx, ...) returns as soon as
\* that ctx is done.  call[c].ctx says which context the method hands to the
\* client: the caller's, or context.Background().
RoundTripOps == {"BeginTx", "Commit", "Rollback", "execute", "Stmt.Close"}

\* c.rdsDataService.BeginTransactionWithContext(ctx, ...): ctx is the parameter
BeginTxContext == "caller"

\* ctx := context.Background() in Conn.Commit
CommitContext == "background"

\* ctx := context.Background() in Conn.Rollback
RollbackContext == "background"

\* c.rdsDataService.ExecuteStatementWithContext(ctx, in): ctx is the parameter
executeContext == "caller"

\* ctx := context.Background() in Stmt.Close
StmtCloseContext == "background"

RoundTripContext(op) ==
    CASE op = "BeginTx"    -> BeginTxContext
      [] op = "Commit"     -> CommitContext
      [] op = "Rollback"   -> RollbackContext
      [] op = "execute"    -> executeContext
      [] op = "Stmt.Close" -> StmtCloseContext

InFlight(c) == call[c].phase = "inflight"

\* The method has passed its checks and hands the request to the client.
Send(c, op) ==
    /\ ~panicked
    /\ ~InFlight(c)
    /\ call' = [call EXCEPT ![c] = [op |-> op, ctx |-> RoundTripContext(op),
                                    phase |-> "inflight", canceled |-> FALSE,
                                    err |-> "none"]]
    /\ UNCHANGED <<connVars, engineVars, panicked, lastOp, stmtVars, rowsVars>>

\* The caller cancels the context it gave to the method, or its timeout fires.
CallerCancels(c) ==
    /\ InFlight(c)
    /\ ~call[c].canceled
    /\ call' = [call EXCEPT ![c].canceled = TRUE]
    /\ UNCHANGED <<connVars, engineVars, panicked, lastOp, stmtVars, rowsVars>>

\* The engine answers and the method returns: nil, or the wrapped error.
EngineAnswers(c, outcome) ==
    /\ InFlight(c)
    /\ call' = [call EXCEPT ![c].phase = "idle",
                            ![c].err = IF outcome = "ok" THEN "nil" ELSE "RemoteError"]
    /\ UNCHANGED <<connVars, engineVars, panicked, lastOp, stmtVars, rowsVars>>

\* The context handed to the client is done: the round trip is aborted and
\* the method returns the cancellation.  context.Background() is never done.
ContextDone(c) ==
    /\ InFlight(c)
    /\ call[c].canceled
    /\ call[c].ctx = "caller"
    /\ call' = [call EXCEPT ![c].phase = "idle", ![c].err = "Canceled"]
    /\ UNCHANGED <<connVars, engineVars, panicked, lastOp, stmtVars, rowsVars>>

NextCancel ==
    \/ \E c \in Conns, op \in RoundTripOps : Send(c, op)
    \/ \E c \in Conns : CallerCancels(c)
    \/ \E c \in Conns, outcome \in BackgroundOutcomes : EngineAnswers(c, outcome)
    \/ \E c \in Conns : ContextDone(c)

\* The client observes a done context; the engine is not obliged to answer
\* and the caller is not obliged to cancel.
SpecCancel ==
    Init /\ [][NextCancel]_vars /\ \A c \in Conns : WF_vars(ContextDone(c))

\* The connection the statement is prepared on.
StmtConns == {1}

\* The callers of a connection that also prepare a statement on it, queue
\* parameter sets, close it and read the deferred results.
NextStmt ==
    \/ \E c \in StmtConns : BeginTx(c)
    \/ \E c \in StmtConns : Commit(c)
    \/ \E c \in StmtConns : Rollback(c)
    \/ \E c \in StmtConns : Close(c)
    \/ \E c \in StmtConns, q \in Queries : PrepareContext(c, q)
    \/ \E a \in StmtArgLists : StmtExecContext(a)
    \/ \E a \in StmtArgLists : StmtQueryContext(a)
    \/ StmtClose
    \/ \E k \in 1..Len(results) : StmtResultLastInsertId(k)
    \/ \E k \in 1..Len(results) : StmtResultRowsAffected(k)

SpecStmt == Init /\ [][NextStmt]_vars

\* The argument list of TestDriverPrepare's first Exec, a list with an
\* unnamed entry and a list with an entry of an unsupported kind.
CallArgLists ==
    { << Named("name", "string", 1) >>,
      << Named("", "string", 1) >>,
      << Named("name", "int", 1) >> }

\* Every method that makes a remote call, on one connection and one
\* statement prepared on it.
NextCalls ==
    \/ \E c \in StmtConns : BeginTx(c)
    \/ \E c \in StmtConns : Commit(c)
    \/ \E c \in StmtConns : Rollback(c)
    \/ \E c \in StmtConns, q \in Queries, a \in CallArgLists : ExecContext(c, q, a)
    \/ \E c \in StmtConns : PrepareContext(c, "INSERT")
    \/ \E a \in CallArgLists : StmtExecContext(a)
    \/ StmtClose

SpecCalls == Init /\ [][NextCalls]_vars

\* ------------------------------------------------------------ properties
ExecOps == {"ExecContext", "QueryContext"}
EndOps == {"Commit", "Rollback"}

\* The connection is Idle / InTransaction in this state.
Idle(c) == transactionID[c] = NoTx
InTransaction(c) == transactionID[c] # NoTx

\* C1: BeginTx on a connection that holds a transaction id returns an error
\* without a round trip and leaves the connection and the engine as they
\* were; the error is the StateError ("a transaction already started") on
\* every connection that has not been closed (a closed one answers
\* "connection already closed").  Hence a second BeginTx with no successful
\* Commit/Rollback in between fails.
C1_BeginInTransactionFails ==
    [][ (lastOp'.op = "BeginTx" /\ InTransaction(lastOp'.conn))
          => /\ lastOp'.err \in {"StateError", "ClosedError"}
             /\ rdsDataService[lastOp'.conn] => lastOp'.err = "StateError"
             /\ lastOp'.request = NoCall
             /\ UNCHANGED <<connVars, engineVars>> ]_vars

\* C1 witness: a BeginTx was refused with StateError on a connection in a transaction.
C1_Witness ==
    /\ lastOp.op = "BeginTx" /\ lastOp.err = "StateError"
    /\ InTransaction(lastOp.conn) /\ rdsDataService[lastOp.conn]

\* C2: Commit and Rollback on an Idle connection return the StateError
\* without a round trip and leave the connection Idle and the engine untouched.
C2_EndWhenIdleFails ==
    [][ (lastOp'.op \in EndOps /\ Idle(lastOp'.conn))
          => /\ lastOp'.err = "StateError"
             /\ lastOp'.request = NoCall
             /\ transactionID'[lastOp'.conn] = NoTx
             /\ UNCHANGED <<connVars, engineVars>> ]_vars

\* C2 witness: a Commit was refused on an Idle connection while the engine
\* has transactions open (those of the other connection).
C2_Witness ==
    /\ lastOp.op = "Commit" /\ lastOp.err = "StateError"
    /\ Idle(lastOp.conn) /\ txOpen # {}

\* C3: when BeginTx succeeds (necessarily from Idle) the connection holds
\* exactly the id the engine's BeginTransaction returned, a transaction the
\* engine has open; a BeginTx that follows immediately on that connection is
\* refused with StateError, and a Commit or Rollback that follows immediately
\* is not refused and sends that id.
C3_BeginSuccessHoldsHandle ==
    [][ /\ (lastOp'.op = "BeginTx" /\ lastOp'.err = "nil")
            => /\ Idle(lastOp'.conn)
               /\ lastOp'.request.api = "BeginTransaction"
               /\ lastOp'.returned # NoTx
               /\ lastOp'.returned \in txOpen' \ txOpen
               /\ transactionID'[lastOp'.conn] = lastOp'.returned
        /\ (lastOp.op = "BeginTx" /\ lastOp.err = "nil" /\ lastOp'.conn = lastOp.conn)
            => /\ lastOp'.op = "BeginTx"
                    => lastOp'.err = "StateError" /\ lastOp'.request = NoCall
               /\ lastOp'.op \in EndOps
                    => /\ lastOp'.err # "StateError"
                       /\ lastOp'.request.api \in {"CommitTransaction", "RollbackTransaction"}
                       /\ lastOp'.request.tid = lastOp.returned ]_vars

\* C3 witness: a BeginTx has just succeeded and its connection holds the id
\* returned, while the other connection is in a transaction of its own.
C3_Witness ==
    /\ lastOp.op = "BeginTx" /\ lastOp.err = "nil"
    /\ transactionID[lastOp.conn] = lastOp.returned
    /\ lastOp.returned \in txOpen
    /\ \A c \in Conns : InTransaction(c)

\* C4: when the round trip of BeginTx fails or is canceled, BeginTx returns
\* the error and the connection stays Idle; and the id of a connection only
\* ever becomes non-empty in a BeginTx that succeeded, to the id returned.
C4_BeginFailureStaysIdle ==
    [][ /\ (lastOp'.op = "BeginTx" /\ lastOp'.request # NoCall /\ lastOp'.cause # "")
            => /\ lastOp'.err = "RemoteError"
               /\ Idle(lastOp'.conn)
               /\ transactionID'[lastOp'.conn] = NoTx
               /\ UNCHANGED <<connVars, engineVars>>
        /\ \A c \in Conns :
              (transactionID'[c] # transactionID[c] /\ transactionID'[c] # NoTx)
                 => /\ lastOp' = Returned(c, "BeginTx", "nil", "", BeginTransactionInput(c),
                                          transactionID'[c], 0)
                    /\ transactionID'[c] \in txOpen' ]_vars

\* C4 witness: a BeginTx was canceled on an Idle connection; it is still Idle.
C4_Witness ==
    /\ lastOp.op = "BeginTx" /\ lastOp.cause = "canceled"
    /\ Idle(lastOp.conn) /\ txCount = 1

\* C5: a Commit or Rollback whose round trip succeeds clears the id (the
\* connection is Idle, the engine no longer has the transaction open); a
\* BeginTx that follows immediately is not refused and makes its round trip,
\* a Commit or Rollback that follows immediately is refused with StateError.
C5_EndSuccessClearsHandle ==
    [][ /\ (lastOp'.op \in EndOps /\ lastOp'.err = "nil")
            => /\ InTransaction(lastOp'.conn)
               /\ lastOp'.request.tid = transactionID[lastOp'.conn]
               /\ transactionID'[lastOp'.conn] = NoTx
               /\ transactionID[lastOp'.conn] \in txOpen \ txOpen'
        /\ (lastOp.op \in EndOps /\ lastOp.err = "nil" /\ lastOp'.conn = lastOp.conn)
            => /\ lastOp'.op = "BeginTx"
                    => /\ lastOp'.err \in {"nil", "RemoteError"}
                       /\ lastOp'.request.api = "BeginTransaction"
               /\ lastOp'.op \in EndOps
                    => lastOp'.err = "StateError" /\ lastOp'.request = NoCall ]_vars

\* C5 witness: a Rollback has just succeeded: its connection is Idle and the
\* engine no longer has the transaction whose id was sent.
C5_Witness ==
    /\ lastOp.op = "Rollback" /\ lastOp.err = "nil"
    /\ Idle(lastOp.conn)
    /\ lastOp.request.tid \in Handles \ txOpen

\* C6: a Commit or Rollback whose round trip fails returns the error and
\* keeps the id: connection and engine are unchanged, and a Commit or
\* Rollback retried immediately sends the same id again.
C6_EndFailureKeepsHandle ==
    [][ /\ (lastOp'.op \in EndOps /\ lastOp'.err = "RemoteError")
            => /\ InTransaction(lastOp'.conn)
               /\ lastOp'.request.tid = transactionID[lastOp'.conn]
               /\ transactionID'[lastOp'.conn] = transactionID[lastOp'.conn]
               /\ UNCHANGED <<connVars, engineVars>>
        /\ (lastOp.op \in EndOps /\ lastOp.err = "RemoteError"
              /\ lastOp'.conn = lastOp.conn /\ lastOp'.op \in EndOps)
            => /\ lastOp'.request.api \in {"CommitTransaction", "RollbackTransaction"}
               /\ lastOp'.request.tid = lastOp.request.tid ]_vars

\* C6 witness: a Rollback failed and the connection still holds the id it sent.
C6_Witness ==
    /\ lastOp.op = "Rollback" /\ lastOp.err = "RemoteError"
    /\ lastOp.request.tid = transactionID[lastOp.conn]
    /\ lastOp.request.tid \in txOpen

\* The transactions the engine has open that were begun through connection c.
OpenVia(c) == {h \in txOpen : txVia[h] = c}

\* C7: in every reachable state each connection has at most one open
\* transaction: of the transactions begun through it, at most one is neither
\* committed nor rolled back, and that one is the one whose id it holds.
C7_AtMostOneOpenTransaction ==
    \A c \in Conns :
        /\ transactionID[c] \in Handles \cup {NoTx}
        /\ Cardinality(OpenVia(c)) <= 1
        /\ OpenVia(c) \subseteq {transactionID[c]}

\* C7 witness: a connection is in its second transaction, the first one ended.
C7_Witness ==
    \E c \in Conns :
        /\ txVia[1] = c /\ txVia[2] = c
        /\ OpenVia(c) = {2} /\ transactionID[c] = 2

\* C8: the ExecuteStatement request that ExecContext/QueryContext sends
\* carries the connection's transaction id exactly when the connection holds
\* one, and no id when it is Idle; the request is sent whenever the
\* arguments encode and the connection has its client.
C8_ExecuteCarriesCurrentHandle ==
    [][ lastOp'.op \in ExecOps
          => /\ lastOp'.request # NoCall
                  => /\ lastOp'.request.api = "ExecuteStatement"
                     /\ lastOp'.request.tid = transactionID[lastOp'.conn]
                     /\ InTransaction(lastOp'.conn) <=> lastOp'.request.tid # NoTx
             /\ lastOp'.err \in {"nil", "RemoteError"} <=> lastOp'.request # NoCall ]_vars

\* C8 witness: a query ran inside a transaction, its request carrying the id.
C8_Witness ==
    /\ lastOp.op = "QueryContext" /\ lastOp.err = "nil"
    /\ lastOp.request.tid # NoTx
    /\ lastOp.request.tid = transactionID[lastOp.conn]

\* C9: ExecContext/QueryContext never change the transaction state, whatever
\* they return (success, a remote failure, a cancellation, an encoding
\* error, a nil dereference): the id of every connection and the engine's
\* set of open transactions are the same after the call as before.
C9_ExecuteKeepsTransactionState ==
    [][ lastOp'.op \in ExecOps
          => /\ lastOp'.err \in {"nil", "RemoteError", "ArgumentError", "TypeError", "panic"}
             /\ UNCHANGED <<transactionID, txOpen, rdsDataService>> ]_vars

\* C9 witness: an Exec inside a transaction was canceled; the transaction is
\* still the connection's, and still open.
C9_Witness ==
    /\ lastOp.op = "ExecContext" /\ lastOp.cause = "canceled"
    /\ InTransaction(lastOp.conn)
    /\ transactionID[lastOp.conn] \in txOpen

\* C10: an INSERT executed through a connection that is InTransaction goes
\* to that transaction and not to the table; a SELECT issued without a
\* transaction id returns the table's committed rows only; the rows of the
\* transaction reach the table in the step in which its Commit succeeds,
\* and the table grows in no other step than a successful Commit or an
\* INSERT of an Idle connection.
C10_InsertInvisibleUntilCommit ==
    [][ LET c == lastOp'.conn
            ran(sql) == /\ lastOp'.op \in ExecOps /\ lastOp'.err = "nil"
                        /\ lastOp'.request.sql = sql
        IN  /\ (ran("INSERT") /\ InTransaction(c))
                => /\ tableRows' = tableRows
                   /\ txPending'[transactionID[c]] = txPending[transactionID[c]] + 1
            /\ (ran("SELECT") /\ Idle(c))
                => /\ lastOp'.request.tid = NoTx
                   /\ lastOp'.records = tableRows
            /\ (lastOp'.op = "Commit" /\ lastOp'.err = "nil")
                => tableRows' = tableRows + txPending[transactionID[c]]
            /\ tableRows' # tableRows
                => \/ lastOp'.op = "Commit" /\ lastOp'.err = "nil"
                   \/ ran("INSERT") /\ Idle(c) ]_vars

\* C10 witness: a read by an Idle connection returned no row while the
\* transaction of the other connection holds an inserted row.
C10_Witness ==
    /\ lastOp.op = "QueryContext" /\ lastOp.err = "nil"
    /\ lastOp.request.sql = "SELECT" /\ lastOp.request.tid = NoTx
    /\ lastOp.records = 0
    /\ \E d \in Conns \ {lastOp.conn} :
          InTransaction(d) /\ txPending[transactionID[d]] = 1

\* C11: a Rollback whose round trip succeeds adds nothing to the table and
\* ends the transaction for good: its rows are dropped, its id is never
\* open again, and every later successful SELECT returns the committed rows
\* plus those of the open transaction it is scoped to, never rows of a
\* transaction that was rolled back.
C11_RolledBackInsertNeverVisible ==
    [][ LET c == lastOp'.conn
            h == transactionID[c]
        IN  /\ (lastOp'.op = "Rollback" /\ lastOp'.err = "nil")
                => /\ lastOp'.request = [api |-> "RollbackTransaction", tid |-> h,
                                         sql |-> "", params |-> << >>]
                   /\ tableRows' = tableRows
                   /\ h \notin txOpen' /\ txPending'[h] = 0
                   /\ txPending[h] > 0 => h \in txDiscarded'
            /\ (lastOp'.op \in ExecOps /\ lastOp'.err = "nil"
                  /\ lastOp'.request.sql = "SELECT")
                => /\ lastOp'.request.tid \notin txDiscarded
                   /\ lastOp'.records =
                        tableRows + (IF Idle(c) THEN 0 ELSE txPending[h])
            /\ txDiscarded \subseteq txDiscarded'
            /\ txDiscarded' \cap txOpen' = {} ]_vars

\* C11 witness: after BeginTx, an INSERT and a successful Rollback on a
\* connection, a read on it returned no row.
C11_Witness ==
    /\ lastOp.op = "QueryContext" /\ lastOp.err = "nil"
    /\ lastOp.request.sql = "SELECT" /\ lastOp.records = 0
    /\ txDiscarded # {} /\ txOpen = {}
    /\ \A h \in txDiscarded : txVia[h] = lastOp.conn

\* ---------------------------------------------------------------- Stmt claims
StmtOpen == stmt # NoStmt /\ ~stmt.closed

\* The parameter sets toParams can produce from the argument lists used.
EncodedSets == { toParams(a).params : a \in { b \in StmtArgLists : toParams(b).err = "nil" } }

\* C12: a successful Exec on an open prepared statement is purely local: no
\* remote call is issued and nothing of the connection or the engine changes;
\* exactly one encoded parameter set is appended to the end of the queue; the
\* result returned is bound to the queue length before the call, so the k-th
\* successful Exec is bound to position k-1.
C12_ExecQueuesLocally ==
    [][ /\ (lastOp'.op = "Stmt.ExecContext" /\ lastOp'.err = "nil")
            => /\ StmtOpen
               /\ lastOp'.request = NoCall
               /\ batchLog' = batchLog
               /\ UNCHANGED <<connVars, engineVars>>
               /\ Len(stmt'.sets) = Len(stmt.sets) + 1
               /\ SubSeq(stmt'.sets, 1, Len(stmt.sets)) = stmt.sets
               /\ stmt'.sets[Len(stmt'.sets)] \in EncodedSets
               /\ [stmt' EXCEPT !.sets = stmt.sets] = stmt
               /\ lastOp'.index = Len(stmt.sets)
               /\ results' = Append(results, Len(stmt.sets))
        /\ \A k \in 1..Len(results') : results'[k] = k - 1 ]_vars

C12_Witness ==
    /\ lastOp.op = "Stmt.ExecContext" /\ lastOp.err = "nil"
    /\ lastOp.index = 2 /\ Len(results) = 3 /\ results[3] = 2
    /\ stmt.sets[1] # stmt.sets[2]
    /\ batchLog = NoBatch

\* C13: Close on an open prepared statement (whose connection still has its
\* client) issues exactly one batched call, carrying every queued parameter
\* set in queue order and the statement's query text; when the call succeeds
\* that is the request the engine served, with one outcome per set. No other
\* operation issues a batched call.
C13_CloseSendsWholeQueueOnce ==
    [][ /\ (lastOp'.op = "Stmt.Close" /\ StmtOpen /\ rdsDataService[stmt.conn])
            => /\ batchLog'.issued = batchLog.issued + 1
               /\ lastOp'.request.api = "BatchExecuteStatement"
               /\ lastOp'.request.params = stmt.sets
               /\ lastOp'.request.sql = stmt.query
               /\ lastOp'.err = "nil"
                    => /\ batchLog'.served = batchLog.served + 1
                       /\ batchLog'.request = lastOp'.request
                       /\ Len(batchLog'.reply) = Len(stmt.sets)
        /\ lastOp'.op # "Stmt.Close" => batchLog' = batchLog ]_vars

C13_Witness ==
    /\ lastOp.op = "Stmt.Close" /\ lastOp.err = "nil"
    /\ batchLog.issued = 1 /\ batchLog.served = 1
    /\ batchLog.request.sql = "INSERT"
    /\ Len(batchLog.request.params) >= 2
    /\ batchLog.request.params[1] # batchLog.request.params[2]
    /\ batchLog.request.params = stmt.sets

\* C14: the batched call of a statement's Close carries the transaction
\* handle its connection holds at the moment of Close, and no handle when the
\* connection holds none then, whatever the connection held when the
\* statement was prepared or when the sets were queued.
C14_BatchScopedAtClose ==
    [][ (lastOp'.op = "Stmt.Close" /\ lastOp'.request.api = "BatchExecuteStatement")
            => /\ lastOp'.request.tid = transactionID[stmt.conn]
               /\ lastOp'.err = "nil" => batchLog'.request.tid = transactionID[stmt.conn] ]_vars

C14_Witness ==
    /\ lastOp.op = "Stmt.Close" /\ lastOp.err = "nil"
    /\ Len(stmt.sets) >= 1
    /\ preparedTid # NoTx /\ lastOp.request.tid # NoTx
    /\ preparedTid # lastOp.request.tid
    /\ lastOp.request.tid = transactionID[stmt.conn]

\* The generated key of an outcome of the batch response, when it has one.
HasKey(outcome) ==
    Len(outcome.GeneratedFields) = 1 /\ outcome.GeneratedFields[1].Slot = "LongValue"

KeyOf(outcome) == outcome.GeneratedFields[1].Value

\* C15: after a statement's Close succeeded, the n results handed out by its
\* n Exec calls are bound to queue positions 0..n-1 in order, there is one
\* outcome per position, and LastInsertId of the result bound to position i
\* reports the generated key of the i-th outcome of the batch response.
C15_ResultReportsOutcomeAtPosition ==
    [][ /\ (stmt'.closed)
            => /\ batchLog'.served >= 1
               /\ Len(batchLog'.reply) = Len(results')
               /\ \A k \in 1..Len(results') : results'[k] = k - 1
        /\ (lastOp'.op = "StmtResult.LastInsertId" /\ stmt.closed)
            => LET outcome == batchLog.reply[lastOp'.index + 1]
               IN  /\ lastOp'.index \in 0..(Len(batchLog.reply) - 1)
                   /\ IF HasKey(outcome)
                        THEN lastOp'.err = "nil" /\ lastOp'.id = KeyOf(outcome)
                        ELSE lastOp'.err = "UnsupportedError"
                   /\ ~panicked' ]_vars

C15_Witness ==
    /\ stmt.closed /\ Len(results) = 3 /\ Len(batchLog.reply) = 3
    /\ HasKey(batchLog.reply[1]) /\ HasKey(batchLog.reply[2]) /\ HasKey(batchLog.reply[3])
    /\ KeyOf(batchLog.reply[1]) < KeyOf(batchLog.reply[2])
    /\ KeyOf(batchLog.reply[2]) < KeyOf(batchLog.reply[3])
    /\ lastOp.op = "StmtResult.LastInsertId" /\ lastOp.err = "nil"
    /\ lastOp.index = 2 /\ lastOp.id = KeyOf(batchLog.reply[3])

\* C16 as stated: over any sequence of Exec and Close calls at most one
\* batched call is ever issued for a statement. A Close whose call failed
\* leaves the statement open, and the next Close issues a second call.
C16_AtMostOneCallIssued == batchLog.issued <= 1

\* C16, amended: a prepared statement executes at most once: at most one
\* batched call ever succeeds for it, no batched call is issued once a Close
\* has succeeded, and a Close on an already-closed statement fails without
\* issuing a call or changing anything. Calls issued before that are Closes
\* whose call failed and which left the statement open.
C16_ExecutesAtMostOnce ==
    [][ /\ batchLog'.served <= 1
        /\ stmt'.closed <=> batchLog'.served = 1
        /\ stmt.closed => batchLog' = batchLog /\ stmt' = stmt
        /\ (lastOp'.op = "Stmt.Close" /\ stmt.closed)
            => /\ lastOp'.err = "ClosedError"
               /\ lastOp'.request = NoCall
               /\ UNCHANGED <<connVars, engineVars>>
        /\ batchLog'.issued > batchLog.issued
            => /\ lastOp'.op = "Stmt.Close"
               /\ batchLog'.issued = batchLog.issued + 1
               /\ lastOp'.err \in {"nil", "RemoteError"}
               /\ lastOp'.err = "RemoteError" => stmt' = stmt /\ ~stmt'.closed ]_vars

C16_Witness ==
    /\ lastOp.op = "Stmt.Close" /\ lastOp.err = "ClosedError"
    /\ stmt.closed /\ Len(stmt.sets) >= 1
    /\ batchLog.served = 1 /\ batchLog.issued = 2

\* C17: after a statement's Close has succeeded, every further Exec on it
\* fails with an error (whatever its arguments), without a remote call, and
\* leaves the statement's queue, its recorded outcomes and the results handed
\* out unchanged.
C17_ExecAfterCloseFails ==
    [][ (lastOp'.op = "Stmt.ExecContext" /\ stmt.closed)
            => /\ lastOp'.err = "ClosedError"
               /\ lastOp'.request = NoCall
               /\ stmt'.sets = stmt.sets /\ stmt'.updates = stmt.updates
               /\ stmt' = stmt /\ results' = results /\ batchLog' = batchLog
               /\ UNCHANGED <<connVars, engineVars>> ]_vars

C17_Witness ==
    /\ lastOp.op = "Stmt.ExecContext" /\ lastOp.err = "ClosedError"
    /\ stmt.closed /\ batchLog.served = 1
    /\ Len(stmt.sets) >= 1
    /\ Len(stmt.updates) = Len(stmt.sets)

\* C18: reading a result's LastInsertId before the owning statement's Close
\* has succeeded returns NotReadyError and no key, and does not crash.
\* (StmtResult.LastInsertId indexes s.updates, which is still empty then.)
C18_ReadBeforeCloseNotReady ==
    (lastOp.op = "StmtResult.LastInsertId" /\ ~stmt.closed)
        => /\ lastOp.err = "NotReadyError"
           /\ lastOp.id = -1
           /\ ~panicked

\* C19: when the batched call of a statement's Close fails, Close returns the
\* error and the statement is as it was: not marked closed, its queue holding
\* every parameter set, no outcome recorded for any result; the connection's
\* handle is unchanged too.
C19_FailedCloseKeepsStatement ==
    [][ (lastOp'.op = "Stmt.Close" /\ lastOp'.err = "RemoteError")
            => /\ lastOp'.cause \in BackgroundOutcomes \ {"ok"}
               /\ stmt' = stmt
               /\ ~stmt'.closed
               /\ stmt'.sets = stmt.sets
               /\ stmt'.updates = << >>
               /\ results' = results
               /\ batchLog'.served = batchLog.served /\ batchLog'.reply = batchLog.reply
               /\ UNCHANGED connVars ]_vars

C19_Witness ==
    /\ lastOp.op = "Stmt.Close" /\ lastOp.err = "RemoteError"
    /\ ~stmt.closed /\ stmt.updates = << >>
    /\ Len(stmt.sets) >= 2 /\ Len(results) = Len(stmt.sets)
    /\ lastOp.request.params = stmt.sets
    /\ batchLog.served = 0 /\ batchLog.issued >= 1

C21_RowsAffectedAfterClose ==
    (lastOp.op = "StmtResult.RowsAffected" /\ stmt.closed)
        => /\ lastOp.err = "nil"
           /\ lastOp.id >= 0
           /\ ~panicked

\* ---------------------------------------------------------------- round-trip claims
\* C22: for each of Begin, Commit, Rollback, Execute and a statement's Close,
\* a round trip in flight whose caller has canceled (or whose timeout has
\* fired) does not block forever: the operation eventually returns, with the
\* cancellation if the engine never answers.
\* (Commit, Rollback and Stmt.Close call the client with context.Background().)
C22_CanceledCallReturns ==
    \A c \in Conns :
        (InFlight(c) /\ call[c].canceled) ~> (~InFlight(c))

\* The methods that make a remote call, and the API each one calls.
RemoteOps == {"BeginTx", "Commit", "Rollback", "ExecContext", "QueryContext", "Stmt.Close"}

OwnCall(op) ==
    CASE op = "BeginTx"    -> "BeginTransaction"
      [] op = "Commit"     -> "CommitTransaction"
      [] op = "Rollback"   -> "RollbackTransaction"
      [] op \in ExecOps    -> "ExecuteStatement"
      [] op = "Stmt.Close" -> "BatchExecuteStatement"

\* C23: no operation retries. Each invocation of Begin, Commit, Rollback,
\* Execute or statement Close issues at most one remote call, that of its own
\* API; when the call fails the operation returns that failure, the engine
\* has served nothing for it and the connection is as before; when it
\* succeeds the engine has served it once (one transaction id handed out,
\* one row per parameter set, one batch counted).
C23_NoRetry ==
    [][ lastOp'.op \in RemoteOps
            => /\ lastOp'.request.api \in {"none", OwnCall(lastOp'.op)}
               /\ lastOp'.cause # ""
                    => /\ lastOp'.err = "RemoteError"
                       /\ lastOp'.request.api = OwnCall(lastOp'.op)
                       /\ UNCHANGED <<connVars, engineVars>>
                       /\ batchLog'.served = batchLog.served
               /\ lastOp'.request = NoCall => UNCHANGED <<engineVars, batchLog>>
               /\ txCount' <= txCount + 1
               /\ lastOp'.op \in ExecOps => RowsHeld' <= RowsHeld + 1
               /\ lastOp'.op = "Stmt.Close"
                    => /\ batchLog'.issued
                            = batchLog.issued + (IF lastOp'.request = NoCall THEN 0 ELSE 1)
                       /\ batchLog'.served <= batchLog.served + 1
                       /\ RowsHeld' <= RowsHeld + Len(stmt.sets) ]_vars

C23_Witness ==
    /\ lastOp.op = "ExecContext" /\ lastOp.err = "RemoteError" /\ lastOp.cause = "error"
    /\ lastOp.request.api = "ExecuteStatement" /\ lastOp.request.sql = "INSERT"
    /\ batchLog.issued = 1 /\ batchLog.served = 0
    /\ RowsHeld = 0 /\ txCount = 0

UpTo(n) == [k \in 1..n |-> k]

\* Whether every field of a record has a populated slot.
Decodable(row) == decodeRow(row, 1, EmptyDest).err = "nil"

\* C25: when decoding a row fails, the cursor has already advanced past that
\* row: the failing call read the record at the cursor and left the cursor
\* one further, so the records read by successive calls of Next are 1, 2, ...
\* without repetition and a call after a decode failure reads the subsequent
\* record (or returns end-of-data).
C25_DecodeFailureAdvancesCursor ==
    [][ /\ (lastOp'.op = "Rows.Next" /\ lastOp'.err = "DecodeError")
            => /\ ~Decodable(rows.Records[rows.pos + 1])
               /\ lastOp'.row = rows.pos + 1
               /\ rows'.pos = rows.pos + 1
        /\ (lastOp'.op = "Rows.Next" /\ lastOp'.row # 0)
            => /\ lastOp'.row = rows.pos + 1
               /\ \A k \in 1..Len(presented) : presented[k] < lastOp'.row
               /\ presented' = Append(presented, lastOp'.row)
        /\ (lastOp'.op = "Rows.Next" /\ ~rows.closed /\ rows.pos < Len(rows.Records)
                /\ ~Decodable(rows.Records[rows.pos + 1]))
            => lastOp'.err = "DecodeError" ]_vars

C25_Witness ==
    /\ lastOp.op = "Rows.Next" /\ lastOp.err = "nil" /\ lastOp.row = 2
    /\ presented = << 1, 2 >>
    /\ ~Decodable(rows.Records[1])
    /\ Decodable(rows.Records[2])
    /\ dest = decodeRow(rows.Records[2], 1, EmptyDest).dest

\* C26: on an iterator that has not been closed, Next at the end of the data
\* returns the end-of-data sentinel, not an error, and changes nothing: the
\* cursor, the iterator and the caller's slice are as before, so every later
\* call finds the same state and returns the sentinel again.
C26_EndOfDataIdempotent ==
    [][ (lastOp'.op = "Rows.Next" /\ ~rows.closed /\ rows.pos >= Len(rows.Records))
            => /\ lastOp'.err = "EOF"
               /\ lastOp'.row = 0
               /\ rows' = rows
               /\ presented' = presented
               /\ dest' = dest ]_vars

C26_Witness ==
    /\ lastOp.op = "Rows.Next" /\ lastOp.err = "EOF"
    /\ ~rows.closed /\ Len(rows.Records) >= 2
    /\ rows.pos = Len(rows.Records)
    /\ presented = UpTo(Len(rows.Records))

\* C27: an unclosed iterator over a response of n records reads record
\* pos+1 at each call of Next, decoding it into the caller's slice, until it
\* has read all n in the order of the response, and then returns
\* end-of-data; in every state the cursor is between 0 and n, it never
\* decreases, and the records read so far are 1..pos.
C27_PresentsRowsInOrder ==
    [][ /\ rows'.pos \in 0..Len(rows'.Records)
        /\ rows'.pos >= rows.pos
        /\ rows'.Records = rows.Records
        /\ presented' = UpTo(rows'.pos)
        /\ (lastOp'.op = "Rows.Next" /\ ~rows.closed)
            => IF rows.pos < Len(rows.Records)
                 THEN /\ lastOp'.row = rows.pos + 1
                      /\ rows'.pos = rows.pos + 1
                      /\ lastOp'.err = "nil"
                            => dest' = decodeRow(rows.Records[rows.pos + 1], 1, dest).dest
                      /\ Decodable(rows.Records[rows.pos + 1]) => lastOp'.err = "nil"
                 ELSE lastOp'.err = "EOF" /\ rows'.pos = rows.pos ]_vars

C27_Witness ==
    /\ lastOp.op = "Rows.Next" /\ lastOp.err = "EOF" /\ ~rows.closed
    /\ Len(rows.Records) = 3 /\ rows.pos = 3
    /\ presented = << 1, 2, 3 >>
    /\ \A k \in 1..3 : Decodable(rows.Records[k])
    /\ rows.Records[1] # rows.Records[2]
    /\ dest = decodeRow(rows.Records[3], 1, EmptyDest).dest

\* C28: after Close on a row iterator every call of Next fails with
\* ClosedError, whatever the cursor position (also at end-of-data), reads no
\* record, writes nothing to the caller's slice and does not move the cursor.
C28_NextAfterCloseFails ==
    [][ (lastOp'.op = "Rows.Next" /\ rows.closed)
            => /\ lastOp'.err = "ClosedError"
               /\ lastOp'.row = 0
               /\ rows' = rows
               /\ presented' = presented
               /\ dest' = dest ]_vars

C28_Witness ==
    /\ lastOp.op = "Rows.Next" /\ lastOp.err = "ClosedError"
    /\ rows.closed /\ Len(rows.Records) >= 1
    /\ rows.pos = Len(rows.Records)

\* C29: closing a row iterator is idempotent: Close returns no error, on an
\* open and on an already-closed iterator, and leaves it closed with the
\* cursor, the records and the caller's slice as they were; on an
\* already-closed iterator it changes nothing.
C29_RowsCloseIdempotent ==
    [][ lastOp'.op = "Rows.Close"
            => /\ lastOp'.err = "nil"
               /\ rows'.closed
               /\ rows'.pos = rows.pos
               /\ rows'.Records = rows.Records
               /\ presented' = presented /\ dest' = dest
               /\ rows.closed => rows' = rows ]_vars

C29_Witness ==
    /\ lastOp.op = "Rows.Close" /\ lastOp.err = "nil"
    /\ lastOp.wasClosed /\ rows.closed
    /\ rows.pos >= 1 /\ rows.pos < Len(rows.Records)

\* ---------------------------------------------------------------- toParams claims
\* The positions of the unnamed entries, and of the entries of a kind
\* outside the type switch, of an argument list.
UnnamedAt(args) == { i \in 1..Len(args) : args[i].Name = "" }
UnsupportedAt(args) == { i \in 1..Len(args) : args[i].Kind \notin SupportedKinds }

\* The least element of a non-empty set of positions.
First(S) == CHOOSE i \in S : \A j \in S : i <= j

\* C30 as stated: every parameter list that contains an unnamed entry fails
\* with ArgumentError, whatever the other entries are and wherever the
\* unnamed entry stands. A named entry of an unsupported kind standing
\* before the first unnamed entry makes the encoding fail with TypeError.
C30_UnnamedAlwaysArgumentError ==
    (lastOp.op = "toParams" /\ UnnamedAt(lastOp.args) # {})
        => lastOp.err = "ArgumentError"

\* C30, amended: every parameter list that contains an unnamed entry fails to
\* encode and yields no parameters; the entries are examined in order and the
\* first offending one decides the error: ArgumentError when no entry before
\* the first unnamed one is of an unsupported kind, TypeError otherwise.
C30_UnnamedFailsEncoding ==
    (lastOp.op = "toParams" /\ UnnamedAt(lastOp.args) # {})
        => /\ lastOp.err \in {"ArgumentError", "TypeError"}
           /\ lastOp.params = << >>
           /\ lastOp.err = "ArgumentError"
                <=> \A i \in UnsupportedAt(lastOp.args) : First(UnnamedAt(lastOp.args)) <= i

C30_Witness ==
    /\ lastOp.op = "toParams" /\ lastOp.err = "ArgumentError"
    /\ Len(lastOp.args) = 3
    /\ UnnamedAt(lastOp.args) = {3}
    /\ UnsupportedAt(lastOp.args) = {}
    /\ lastOp.args[1].Kind # lastOp.args[2].Kind

\* The six kinds of value the specification lets a binding have, and the
\* positions of the named entries of any other kind.
SixKinds == {"string", "bytes", "bool", "float64", "int64", "nil"}
OutsideAt(args) == { i \in 1..Len(args) : args[i].Name # "" /\ args[i].Kind \notin SixKinds }

\* C31 as stated: every list with a named entry of a kind outside the six
\* supported kinds fails with a TypeError that identifies such an entry by
\* name and observed kind, and returns no descriptors. An unnamed entry
\* standing before it makes the encoding fail with ArgumentError instead.
C31_OutsideAlwaysTypeError ==
    (lastOp.op = "toParams" /\ OutsideAt(lastOp.args) # {})
        => /\ lastOp.err = "TypeError"
           /\ lastOp.params = << >>
           /\ \E i \in OutsideAt(lastOp.args) :
                lastOp.about = [Name |-> lastOp.args[i].Name, Kind |-> lastOp.args[i].Kind]

\* C31, amended: every list with a named entry of a kind outside the six
\* supported kinds fails to encode and yields no descriptors; the first entry
\* that is unnamed or of a kind the type switch does not handle decides the
\* error: TypeError identifying that entry's name and observed kind when it
\* is named, ArgumentError when it is unnamed.
C31_OutsideFailsEncoding ==
    (lastOp.op = "toParams" /\ OutsideAt(lastOp.args) # {})
        => LET o == First(UnnamedAt(lastOp.args) \cup UnsupportedAt(lastOp.args))
           IN  /\ lastOp.err \in {"ArgumentError", "TypeError"}
               /\ lastOp.params = << >>
               /\ lastOp.err = "TypeError" <=> o \notin UnnamedAt(lastOp.args)
               /\ lastOp.err = "TypeError" =>
                    lastOp.about = [Name |-> lastOp.args[o].Name,
                                    Kind |-> lastOp.args[o].Kind]
               /\ lastOp.err = "ArgumentError" => lastOp.about = NoEntry

\* A supported entry, then a named entry of an unsupported kind, then an
\* unnamed one: the TypeError names the second entry.
C31_Witness ==
    /\ lastOp.op = "toParams" /\ lastOp.err = "TypeError"
    /\ Len(lastOp.args) = 3
    /\ OutsideAt(lastOp.args) = {2}
    /\ UnsupportedAt(lastOp.args) = {2}
    /\ UnnamedAt(lastOp.args) = {3}
    /\ lastOp.about = [Name |-> lastOp.args[2].Name, Kind |-> "int"]

\* C32: every list of named bindings whose values are each of one of the six
\* supported kinds (text, bytes, boolean, double, 64-bit integer, null)
\* encodes successfully into a list of the same length in which descriptor i
\* has the name of binding i and a value of the same kind and content.
C32_SupportedKindsEncode ==
    (/\ lastOp.op = "toParams"
     /\ \A i \in 1..Len(lastOp.args) :
            lastOp.args[i].Name # "" /\ lastOp.args[i].Kind \in SixKinds)
        => /\ lastOp.err = "nil"
           /\ Len(lastOp.params) = Len(lastOp.args)
           /\ \A i \in 1..Len(lastOp.args) :
                /\ lastOp.params[i].Name = lastOp.args[i].Name
                /\ lastOp.params[i].Slot =
                        (IF lastOp.args[i].Kind = "nil" THEN "IsNull"
                         ELSE FieldSlot(lastOp.args[i].Kind))
                /\ lastOp.params[i].Value = lastOp.args[i].Value

\* ---------------------------------------------------------------- decodeField claims
\* The order in which the specification resolves the slots (binary, boolean,
\* double, explicit-null, integer, text) and the kind of value each yields.
DecodeOrder ==
    <<"BlobValue", "BooleanValue", "DoubleValue", "IsNull", "LongValue", "StringValue">>

KindOfSlot(s) ==
    CASE s = "BlobValue"    -> "bytes"
      [] s = "BooleanValue" -> "bool"
      [] s = "DoubleValue"  -> "float64"
      [] s = "IsNull"       -> "nil"
      [] s = "LongValue"    -> "int64"
      [] s = "StringValue"  -> "string"

PopulatedAt(f) == { i \in DOMAIN DecodeOrder : DecodeOrder[i] \in f.Slots }

\* C33: decoding a field returns the value of the first populated slot in the
\* order binary, boolean, double, explicit-null, integer, text, an explicit
\* null decoding to the null value, for every combination of populated
\* slots; a field with no populated slot fails with DecodeError.
C33_FirstPopulatedSlotWins ==
    lastOp.op = "decodeField" =>
        LET f == lastOp.field
        IN  IF PopulatedAt(f) = {}
            THEN lastOp.err = "DecodeError"
            ELSE LET s == DecodeOrder[First(PopulatedAt(f))]
                 IN  /\ lastOp.err = "nil"
                     /\ lastOp.v.kind = KindOfSlot(s)
                     /\ lastOp.v.value = (IF s = "IsNull" THEN 0 ELSE f.Value)

\* A field with the explicit-null, integer and text slots populated decodes
\* to the null value.
C33_Witness ==
    /\ lastOp.op = "decodeField" /\ lastOp.err = "nil"
    /\ lastOp.field.Slots = {"IsNull", "LongValue", "StringValue"}
    /\ lastOp.v.kind = "nil"

\* ---------------------------------------------------------------- Result claims
\* The generated key of a list of generated fields: defined exactly when the
\* list has one field and that field is of integer kind.
HasGeneratedKey(g) == Len(g) = 1 /\ g[1].Slot = "LongValue"

\* C34: LastInsertId, on the Result of an execute and on the result of a
\* statement that was flushed, returns the generated key exactly when the
\* outcome carries exactly one generated field and that field is of integer
\* kind; with no generated field, with more than one, or with one field of
\* another kind it fails and returns no key.
C34_KeyIffOneIntegerField ==
    /\ lastOp.op = "Result.LastInsertId" =>
          LET g == lastOp.output.GeneratedFields
          IN  IF HasGeneratedKey(g)
              THEN lastOp.err = "nil" /\ lastOp.id = g[1].Value
              ELSE lastOp.err = "UnsupportedError" /\ lastOp.id = -1
    /\ (lastOp.op = "StmtResult.LastInsertId" /\ stmt.closed
            /\ lastOp.index + 1 \in DOMAIN stmt.updates) =>
          LET g == stmt.updates[lastOp.index + 1].GeneratedFields
          IN  IF HasGeneratedKey(g)
              THEN lastOp.err = "nil" /\ lastOp.id = g[1].Value
              ELSE lastOp.err = "UnsupportedError" /\ lastOp.id = -1

\* LastInsertId refused an outcome with two generated fields of integer kind.
C34_Witness ==
    /\ lastOp.op = "Result.LastInsertId" /\ lastOp.err = "UnsupportedError"
    /\ Len(lastOp.output.GeneratedFields) = 2
    /\ \A i \in DOMAIN lastOp.output.GeneratedFields :
            lastOp.output.GeneratedFields[i].Slot = "LongValue"

\* C35: RowsAffected on the Result of a successful execute never fails and
\* returns the update count the engine reported, 0 included, and 0 when the
\* engine reported no count.
C35_RowsAffectedReportsCount ==
    lastOp.op = "Result.RowsAffected" =>
        /\ lastOp.err = "nil"
        /\ lastOp.n = (IF lastOp.output.NumberOfRecordsUpdated.Present
                          THEN lastOp.output.NumberOfRecordsUpdated.Value
                          ELSE 0)

\* RowsAffected returned 0 for an output without an update count.
C35_Witness ==
    /\ lastOp.op = "Result.RowsAffected" /\ lastOp.err = "nil"
    /\ ~lastOp.output.NumberOfRecordsUpdated.Present
    /\ lastOp.n = 0

\* ---------------------------------------------------------------- Open claims
\* The key has a non-empty value in the configuration.
Configured(q, key) == q.values[key] # << >> /\ q.values[key][1] # ""

\* C36: Open returns a connection, Idle and without a transaction handle,
\* if and only if Database, ResourceARN and SecretARN are all non-empty in
\* the configuration; with one of them missing or empty (or a conn string
\* that is no configuration at all) it fails with ConfigError and returns no
\* connection.
C36_OpenIffConfigured ==
    lastOp.op = "Open" =>
        IF lastOp.q.parses /\ \A key \in ConfigKeys : Configured(lastOp.q, key)
        THEN /\ lastOp.err = "nil" /\ lastOp.conn \in Conns
             /\ Idle(lastOp.conn)
             /\ rdsDataService[lastOp.conn]
        ELSE /\ lastOp.err = "ConfigError" /\ lastOp.conn = 0
             /\ \A c \in Conns : ~rdsDataService[c]

\* Open refused a configuration in which only SecretARN is missing.
C36_Witness ==
    /\ lastOp.op = "Open" /\ lastOp.err = "ConfigError"
    /\ lastOp.q.parses
    /\ Configured(lastOp.q, "Database") /\ Configured(lastOp.q, "ResourceARN")
    /\ lastOp.q.values["SecretARN"] = << >>

\* ---------------------------------------------------------------- use after Close
\* C37: Close of a connection is terminal from Idle and from InTransaction:
\* every Begin, Execute, Query, Commit and Rollback called on the connection
\* after its Close returns an error value and issues no remote call.
C37_UseAfterCloseReturnsError ==
    (/\ lastOp.op \in ExecOps \cup EndOps \cup {"BeginTx"}
     /\ ~rdsDataService[lastOp.conn])
        => /\ lastOp.err \notin {"nil", "panic"}
           /\ ~panicked
           /\ lastOp.request = NoCall

\* ---------------------------------------------------------------- handles sent
\* C38: every remote call that carries a transaction handle (execute, batch
\* execute, commit, rollback) carries the handle the connection holds, which
\* is the one returned by the most recent successful Begin on that
\* connection and which no successful Commit or Rollback has ended since; a
\* handle that was cleared is never sent again.
C38_SendsOnlyCurrentHandle ==
    [][ lastOp'.request.tid # NoTx =>
            LET c == lastOp'.conn
                h == lastOp'.request.tid
            IN  /\ h = transactionID[c]
                /\ h \in txOpen
                /\ txVia[h] = c
                /\ \A g \in 1..txCount : txVia[g] = c => g <= h ]_vars

\* The batched call of a statement carried the connection's second handle
\* after the first one had been cleared.
C38_Witness ==
    /\ lastOp.op = "Stmt.Close" /\ lastOp.err = "nil"
    /\ lastOp.request.tid # NoTx
    /\ \E g \in 1..txCount : g < lastOp.request.tid /\ g \notin txOpen

\* ---------------------------------------------------------------- failed encoding
\* C39: an operation whose parameter encoding fails has no effect beyond
\* returning the encoding error: an execute issues no remote call and changes
\* neither the connection nor the engine, an ExecContext on a prepared
\* statement leaves the queue and the results handed out as they were, and
\* the positions handed out are always 0, 1, 2, ... with one per queued set.
C39_FailedEncodingHasNoEffect ==
    /\ [][ (/\ lastOp'.op \in ExecOps \cup {"Stmt.ExecContext"}
            /\ lastOp'.err \in {"ArgumentError", "TypeError"})
           => /\ lastOp'.request = NoCall
              /\ UNCHANGED <<connVars, engineVars, panicked, stmtVars>> ]_vars
    /\ [](/\ Len(results) = Len(stmt.sets)
          /\ \A k \in DOMAIN results : results[k] = k - 1)

\* An ExecContext on a statement with one queued set was refused for an
\* entry of an unsupported kind.
C39_Witness ==
    /\ lastOp.op = "Stmt.ExecContext" /\ lastOp.err = "TypeError"
    /\ ~stmt.closed
    /\ Len(stmt.sets) = 1 /\ results = << 0 >>

====
